---- MODULE Spec2Model ----
(***************************************************************************)
(* Board / task state engine of the task-management server                 *)
(* (the board, task, project and comment routers of the backend and the    *)
(* Board, Task, Project, Activity and Notification models).                *)
(*                                                                         *)
(* The document store is modelled as its collections.  projects, boards,   *)
(* tasks and comments are functions from the ids of the stored documents   *)
(* to the documents.  The handlers only ever insert Activity and           *)
(* Notification documents and delete them by projectId, so these two       *)
(* collections are kept by the field values that the stored documents      *)
(* carry: the notifications as the set of these values, the activities as  *)
(* the number of documents stored per value, counted up to MaxLogged.  Every route handler is one action; a handler that     *)
(* ends in                                                                 *)
(* an early `return res.status(...)` leaves the collections alone and only *)
(* sets the response.  ObjectIds are strings ("c1", "t2", ...) drawn from  *)
(* per-collection counters, so an id is never reused and a URL segment     *)
(* such as "reorder" can be compared with an id the way the handlers do    *)
(* (`column._id.toString() === columnId`).                                 *)
(***************************************************************************)
EXTENDS Integers, Sequences, FiniteSets, TLC

VARIABLES
    projects,   \* Project collection: project id -> [owner, members]
    boards,     \* Board collection: board id -> [project, columns, columnOrder]
    tasks,      \* Task collection: task id -> [title, board, column, order,
                \* createdBy]
    comments,   \* Comment collection: comment id -> [task, author, content,
                \* mentions]
    activities, \* Activity collection: [projectId, entityType] -> number of
                \* documents stored with these values, up to MaxLogged
    notifications, \* Notification collection: the [projectId, recipient, type] stored
    nextId,     \* number of ObjectIds handed out so far, per kind, and
                \* of move requests taken up for concurrent service
    res,        \* the last request served and the response it got
    reqs,       \* move requests in flight (their in-memory documents)
    sockets,    \* socket server: connection -> [live, rooms]
    activeUsers, \* socket server: the activeUsers Map, user id -> socket id
    online,     \* the user ids of the last users:online broadcast
    inbox,      \* connection -> the events delivered to its client and not
                \* yet dispatched there
    stores,     \* client (one per connection) -> its board store
    calls       \* client -> the call of its store that is in flight

\* the state of the socket server and of the clients
front == <<sockets, activeUsers, online, inbox, stores, calls>>

vars == <<projects, boards, tasks, comments, activities, notifications,
          nextId, res, reqs, front>>

\* the state of the HTTP server
back == <<projects, boards, tasks, comments, activities, notifications,
          nextId, res, reqs>>

\* the collections of the document store
store == <<projects, boards, tasks, comments, activities, notifications>>

\* the collections no board, column or task route writes to
aside == <<comments, notifications>>

---------------------------------------------------------------------------
(* Bounds of the model *)

MaxColumns == 4        \* column ObjectIds handed out
MaxTasks == 2          \* tasks created when the columns are left alone
MaxMoveTasks == 3      \* tasks created when they are only created and moved
MaxBoardTasks == 1     \* tasks created when columns come and go as well
MaxRaceTasks == 2      \* tasks created when move requests interleave
MaxMoves == 2          \* move requests taken up when they interleave
MaxOrderLen == 3       \* length of the columnOrder array of a reorder request
MaxBoards == 1         \* boards created through POST /api/boards
MaxComments == 2       \* comments created
MaxLostTasks == 1      \* tasks created when two moves share a starting state
MaxFaultTasks == 2     \* tasks created when a write of the store can fail
MaxFaults == 1         \* move requests whose write of the task fails
MaxClientTasks == 1    \* tasks created while clients mirror the board
MaxInbox == 1          \* events not yet dispatched when one more is relayed
MaxLogged == 2         \* activities of a project and entity type told apart

\* the projects created (each comes with its default board), by number
ProjectNumbers == {1}
\* the same when members and projects are managed: a project to delete and
\* one to keep
ManagedProjectNumbers == {1, 2}
\* the order a move request carries: before the start, the start, and a
\* position that is inside a column of two and past the end of a shorter one
OrderValues == {-1, 0, 1}

\* the tasks created when every operation of the state engine is served,
\* by number
LoggedTaskNumbers == {1}
\* and the columns created then, by the number of their ObjectId (the
\* default columns of the board are the first three)
LoggedColumnNumbers == {4}

\* the calls a client makes on its board store, by their number
CallNumbers == {1, 2}

Users == {"u1", "u2"}
Owners == {"u1"}       \* the users who create projects; "u2" stays an outsider
Requests == {"r1", "r2"}
Connections == {"s1", "s2", "s3"}

\* socket.user of a connection: "u1" is signed in on two clients
SocketUser == [s1 |-> "u1", s2 |-> "u1", s3 |-> "u2"]

\* the clients whose board store is followed (one client per connection)
Clients == {"s1", "s2"}

---------------------------------------------------------------------------
(* ObjectIds and array helpers *)

ProjectId(n) == "p" \o ToString(n)
BoardId(n) == "b" \o ToString(n)
ColumnId(n) == "c" \o ToString(n)
TaskId(n) == "t" \o ToString(n)
CommentId(n) == "m" \o ToString(n)

\* an id no document has (a well-formed ObjectId that is not in the store)
UnknownId == "x0"

Min(a, b) == IF a < b THEN a ELSE b
Max(a, b) == IF a > b THEN a ELSE b

Range(s) == {s[i] : i \in DOMAIN s}

\* s.findIndex(e => e === x), 1-based; 0 stands for JavaScript's -1
IndexOf(s, x) ==
    IF \E i \in DOMAIN s : s[i] = x
    THEN CHOOSE i \in DOMAIN s : s[i] = x /\ \A j \in 1..(i - 1) : s[j] # x
    ELSE 0

\* s.splice(i, 1) for a 1-based index i of s
RemoveAt(s, i) == SubSeq(s, 1, i - 1) \o SubSeq(s, i + 1, Len(s))

\* the position Array.prototype.splice resolves its `start` argument to
\* (0-based): a negative start counts from the end, a start beyond the end
\* is the end
SpliceStart(len, start) ==
    IF start < 0 THEN Max(len + start, 0) ELSE Min(start, len)

\* s.splice(start, 0, x)
SpliceInsert(s, start, x) ==
    LET k == SpliceStart(Len(s), start)
    IN  SubSeq(s, 1, k) \o <<x>> \o SubSeq(s, k + 1, Len(s))

\* all sequences over S of length at most n
SeqsUpTo(S, n) == UNION {[1..k -> S] : k \in 0..n}

ColumnIdsOf(board) == {board.columns[i].id : i \in DOMAIN board.columns}

\* board.columns.findIndex(column => column._id.toString() === columnId)
ColumnIndexOf(board, columnId) ==
    IndexOf([i \in DOMAIN board.columns |-> board.columns[i].id], columnId)

---------------------------------------------------------------------------
(* Models *)

\* boardSchema.pre('save'): a new board without columns gets the three
\* default columns, with fresh ObjectIds ColumnId(n+1..n+3)
DefaultColumns(n) ==
    << [id |-> ColumnId(n + 1), title |-> "To Do", order |-> 0, taskIds |-> <<>>],
       [id |-> ColumnId(n + 2), title |-> "In Progress", order |-> 1, taskIds |-> <<>>],
       [id |-> ColumnId(n + 3), title |-> "Done", order |-> 2, taskIds |-> <<>>] >>

\* a faulty variant of NewBoard: the pre('save') hook adds nothing
NewBoardWithoutColumns(project, n) ==
    [project |-> project, columns |-> <<>>, columnOrder |-> <<>>]

\* the Board document a creation path stores
NewBoard(project, n) ==
    LET cols == DefaultColumns(n)
    IN  [project |-> project,
         columns |-> cols,
         columnOrder |-> [i \in DOMAIN cols |-> cols[i].id]]

\* projectSchema.pre('save'): the owner is pushed as a member with role owner
NewProject(owner) ==
    [owner |-> owner, members |-> <<[user |-> owner, role |-> "owner"]>>]

IsMember(project, u) ==
    \E i \in DOMAIN project.members : project.members[i].user = u

\* the Activity collection after `new Activity({entityType, projectId,
\* ...}).save()`; Logged is the number of documents stored with the values
Logged(log, a) == IF a \in DOMAIN log THEN log[a] ELSE 0

\* a faulty variant of WithActivity: the handler stores no activity
WithoutActivity(entityType, projectId) == activities

WithActivity(entityType, projectId) ==
    LET a == [projectId |-> projectId, entityType |-> entityType]
    IN  IF Logged(activities, a) = MaxLogged
        THEN activities
        ELSE [x \in DOMAIN activities \cup {a} |->
                 IF x = a THEN Logged(activities, a) + 1 ELSE activities[x]]

\* the Notification collection after one notification of the type has been
\* inserted for every recipient
WithNotifications(recipients, type, projectId) ==
    notifications \cup
        {[projectId |-> projectId, recipient |-> u, type |-> type] :
            u \in recipients}

---------------------------------------------------------------------------
(* Access-control middleware: the status the middleware answers with, or   *)
(* 200 when it calls next()                                                *)

canAccessBoard(u, b) ==
    IF b \notin DOMAIN boards THEN 404
    ELSE IF boards[b].project \notin DOMAIN projects THEN 404
    ELSE IF ~IsMember(projects[boards[b].project], u) THEN 403
    ELSE 200

canAccessTask(u, t) ==
    IF t \notin DOMAIN tasks THEN 404
    ELSE canAccessBoard(u, tasks[t].board)

\* The response of a request, with the operation that produced it.  For a
\* successful move it also records the task moved and whether the request
\* repeats the one served just before it.
RespondMove(status, t, again) ==
    [op |-> "moveTask", status |-> status, id |-> t, again |-> again]

\* the board store of a client before a board is loaded
EmptyStore == [currentBoard |-> "null", columns |-> <<>>, tasks |-> <<>>,
               error |-> "null"]

\* no call in flight; `made` counts the calls the client has made
NoResponse == [columns |-> <<>>, tasks |-> <<>>]

NoCall == [pc |-> "idle", op |-> "none", made |-> 0, taskId |-> "",
           boardId |-> "", columnId |-> "", index |-> 0, join |-> FALSE,
           status |-> 0, response |-> NoResponse]

Respond(op, status) == [op |-> op, status |-> status, id |-> "", again |-> FALSE]

---------------------------------------------------------------------------
(* Initial state: an empty store, nothing served yet *)

Init ==
    /\ projects = <<>>
    /\ boards = <<>>
    /\ tasks = <<>>
    /\ comments = <<>>
    /\ activities = <<>>
    /\ notifications = {}
    /\ nextId = [project |-> 0, board |-> 0, column |-> 0, task |-> 0,
                 comment |-> 0, move |-> 0]
    /\ res = Respond("none", 0)
    /\ reqs = [r \in Requests |-> [pc |-> "idle"]]
    /\ sockets = [s \in Connections |-> [live |-> FALSE, rooms |-> {}]]
    /\ activeUsers = <<>>
    /\ online = {}
    /\ inbox = [s \in Connections |-> <<>>]
    /\ stores = [k \in Connections |-> EmptyStore]
    /\ calls = [k \in Connections |-> NoCall]

---------------------------------------------------------------------------
(* POST /api/projects: the project and its default board *)

CreateProject(u) ==
    /\ LET p == ProjectId(nextId.project + 1)
           b == BoardId(nextId.board + 1)
       IN  /\ projects' = (p :> NewProject(u)) @@ projects
           /\ boards' = (b :> NewBoard(p, nextId.column)) @@ boards
           /\ nextId' = [nextId EXCEPT !.project = @ + 1, !.board = @ + 1,
                                       !.column = @ + 3]
           /\ activities' = WithActivity("project", p)
           /\ res' = Respond("createProject", 201)
    /\ UNCHANGED <<tasks, aside, reqs>>

---------------------------------------------------------------------------
(* Member and project routes of the project router *)

\* project.members.find(member => member.user.toString() === userId)
MemberIndexOf(project, userId) ==
    IndexOf([i \in DOMAIN project.members |-> project.members[i].user], userId)

\* the role of the member entry that `find` returns, "none" without one
RoleOf(project, userId) ==
    LET memberIndex == MemberIndexOf(project, userId)
    IN  IF memberIndex = 0 THEN "none" ELSE project.members[memberIndex].role

\* a faulty variant of ValidRoles: the validator lets 'owner' through
ValidRolesWithOwner == {"admin", "member", "owner"}

\* body('role').isIn(['admin', 'member'])
ValidRoles == {"admin", "member"}

\* isAdminOrOwner middleware: the status it answers with, 200 for next()
isAdminOrOwner(u, p) ==
    IF p \notin DOMAIN projects THEN 404
    ELSE IF RoleOf(projects[p], u) \notin {"admin", "owner"} THEN 403
    ELSE 200


\* POST /:id/members; the users of the User collection are Users
AddMember(u, p, userId, role) ==
    LET access == isAdminOrOwner(u, p)
    IN  IF access # 200
        THEN /\ res' = Respond("addMember", access)
             /\ UNCHANGED <<store, nextId, reqs>>
        ELSE IF userId = "" \/ role \notin ValidRoles
        THEN /\ res' = Respond("addMember", 400)
             /\ UNCHANGED <<store, nextId, reqs>>
        ELSE IF userId \notin Users
        THEN /\ res' = Respond("addMember", 404)
             /\ UNCHANGED <<store, nextId, reqs>>
        ELSE IF IsMember(projects[p], userId)
        THEN /\ res' = Respond("addMember", 400)
             /\ UNCHANGED <<store, nextId, reqs>>
        ELSE /\ projects' = [projects EXCEPT ![p].members =
                    Append(@, [user |-> userId, role |-> role])]
             /\ activities' = WithActivity("project", p)
             /\ notifications' =
                    WithNotifications({userId}, "project_invitation", p)
             /\ res' = Respond("addMember", 200)
             /\ UNCHANGED <<boards, tasks, comments, nextId, reqs>>

\* PUT /:id/members/:userId
UpdateMemberRole(u, p, userId, role) ==
    LET access == isAdminOrOwner(u, p)
    IN  IF access # 200
        THEN /\ res' = Respond("updateMemberRole", access)
             /\ UNCHANGED <<store, nextId, reqs>>
        ELSE IF role \notin ValidRoles
        THEN /\ res' = Respond("updateMemberRole", 400)
             /\ UNCHANGED <<store, nextId, reqs>>
        ELSE IF projects[p].owner = userId
        THEN /\ res' = Respond("updateMemberRole", 400)
             /\ UNCHANGED <<store, nextId, reqs>>
        ELSE LET memberIndex == MemberIndexOf(projects[p], userId)
             IN  IF memberIndex = 0
                 THEN /\ res' = Respond("updateMemberRole", 404)
                      /\ UNCHANGED <<store, nextId, reqs>>
                 ELSE /\ projects' = [projects EXCEPT
                             ![p].members[memberIndex].role = role]
                      /\ activities' = WithActivity("project", p)
                      /\ res' = Respond("updateMemberRole", 200)
                      /\ UNCHANGED <<boards, tasks, aside, nextId, reqs>>

\* DELETE /:id/members/:userId
RemoveMember(u, p, userId) ==
    LET access == isAdminOrOwner(u, p)
    IN  IF access # 200
        THEN /\ res' = Respond("removeMember", access)
             /\ UNCHANGED <<store, nextId, reqs>>
        ELSE IF projects[p].owner = userId
        THEN /\ res' = Respond("removeMember", 400)
             /\ UNCHANGED <<store, nextId, reqs>>
        ELSE LET memberIndex == MemberIndexOf(projects[p], userId)
             IN  IF memberIndex = 0
                 THEN /\ res' = Respond("removeMember", 404)
                      /\ UNCHANGED <<store, nextId, reqs>>
                 ELSE /\ projects' = [projects EXCEPT
                             ![p].members = RemoveAt(@, memberIndex)]
                      /\ activities' = WithActivity("project", p)
                      /\ res' = Respond("removeMember", 200)
                      /\ UNCHANGED <<boards, tasks, aside, nextId, reqs>>

\* the documents of a collection (a function from ids) under the given ids
Keep(collection, ids) == [x \in ids |-> collection[x]]

\* a faulty variant of BoardsWithoutProject: deleteMany without the filter
BoardsWithoutAny(p) == Keep(boards, {})

\* the Board collection after Board.deleteMany({ project: p })
BoardsWithoutProject(p) ==
    Keep(boards, {b \in DOMAIN boards : boards[b].project # p})

\* DELETE /:id of the project router: past the middleware, only the owner
\* goes on; the Task collection is not touched
DeleteProject(u, p) ==
    LET access == isAdminOrOwner(u, p)
    IN  IF access # 200
        THEN /\ res' = Respond("deleteProject", access)
             /\ UNCHANGED <<store, nextId, reqs>>
        ELSE IF projects[p].owner # u
        THEN /\ res' = Respond("deleteProject", 403)
             /\ UNCHANGED <<store, nextId, reqs>>
        ELSE /\ projects' = Keep(projects, DOMAIN projects \ {p})
             /\ boards' = BoardsWithoutProject(p)
             /\ activities' =
                    Keep(activities,
                         {a \in DOMAIN activities : a.projectId # p})
             /\ notifications' = {n \in notifications : n.projectId # p}
             /\ res' = Respond("deleteProject", 200)
             /\ UNCHANGED <<tasks, comments, nextId, reqs>>

---------------------------------------------------------------------------
(* Board routes of the board router *)

\* POST /api/boards: the body carries title, description and projectId, so
\* the new Board has no columns when the pre('save') hook runs
CreateBoard(u, projectId, title) ==
    IF title = "" \/ projectId = ""
    THEN /\ res' = Respond("createBoard", 400)
         /\ UNCHANGED <<store, nextId, reqs>>
    ELSE IF projectId \notin DOMAIN projects
    THEN /\ res' = Respond("createBoard", 404)
         /\ UNCHANGED <<store, nextId, reqs>>
    ELSE IF ~IsMember(projects[projectId], u)
    THEN /\ res' = Respond("createBoard", 403)
         /\ UNCHANGED <<store, nextId, reqs>>
    ELSE /\ boards' = (BoardId(nextId.board + 1) :>
                           NewBoard(projectId, nextId.column)) @@ boards
         /\ nextId' = [nextId EXCEPT !.board = @ + 1, !.column = @ + 3]
         /\ activities' = WithActivity("board", projectId)
         /\ res' = Respond("createBoard", 201)
         /\ UNCHANGED <<projects, tasks, aside, reqs>>

\* a faulty variant of TasksWithoutBoard: the tasks are left in the store
TasksWithBoard(b) == tasks

\* the Task collection after Task.deleteMany({ board: b })
TasksWithoutBoard(b) ==
    Keep(tasks, {t \in DOMAIN tasks : tasks[t].board # b})

\* DELETE /:id of the board router
DeleteBoard(u, b) ==
    LET access == canAccessBoard(u, b)
    IN  IF access # 200
        THEN /\ res' = Respond("deleteBoard", access)
             /\ UNCHANGED <<store, nextId, reqs>>
        ELSE IF RoleOf(projects[boards[b].project], u) \notin {"admin", "owner"}
        THEN /\ res' = Respond("deleteBoard", 403)
             /\ UNCHANGED <<store, nextId, reqs>>
        ELSE /\ boards' = Keep(boards, DOMAIN boards \ {b})
             /\ tasks' = TasksWithoutBoard(b)
             /\ activities' = WithActivity("board", boards[b].project)
             /\ res' = Respond("deleteBoard", 200)
             /\ UNCHANGED <<projects, aside, nextId, reqs>>

---------------------------------------------------------------------------
(* Column routes of the board router *)

\* the `title` of a request body that has no title field
NoTitle == "<undefined>"

\* POST /:id/columns
CreateColumn(u, b, title) ==
    LET access == canAccessBoard(u, b)
    IN  IF access # 200
        THEN /\ res' = Respond("createColumn", access)
             /\ UNCHANGED <<store, nextId, reqs>>
        ELSE IF title = "" \/ title = NoTitle
        THEN /\ res' = Respond("createColumn", 400)
             /\ UNCHANGED <<store, nextId, reqs>>
        ELSE /\ LET board == boards[b]
                    newColumn == [id |-> ColumnId(nextId.column + 1),
                                  title |-> title,
                                  order |-> Len(board.columns),
                                  taskIds |-> <<>>]
                IN  boards' = [boards EXCEPT ![b] =
                        [board EXCEPT
                            !.columns = Append(@, newColumn),
                            !.columnOrder = Append(@, newColumn.id)]]
             /\ nextId' = [nextId EXCEPT !.column = @ + 1]
             /\ activities' = WithActivity("column", boards[b].project)
             /\ res' = Respond("createColumn", 201)
             /\ UNCHANGED <<projects, tasks, aside, reqs>>

\* PUT /:id/columns/:columnId
\* A body without title passes the optional() validator; the handler then
\* stores undefined in the required title and board.save() rejects it.
UpdateColumn(u, b, columnId, title) ==
    LET access == canAccessBoard(u, b)
    IN  IF access # 200
        THEN /\ res' = Respond("updateColumn", access)
             /\ UNCHANGED <<store, nextId, reqs>>
        ELSE IF title = ""
        THEN /\ res' = Respond("updateColumn", 400)
             /\ UNCHANGED <<store, nextId, reqs>>
        ELSE LET board == boards[b]
                 columnIndex == ColumnIndexOf(board, columnId)
             IN  IF columnIndex = 0
                 THEN /\ res' = Respond("updateColumn", 404)
                      /\ UNCHANGED <<store, nextId, reqs>>
                 ELSE IF title = NoTitle
                 THEN /\ res' = Respond("updateColumn", 500)
                      /\ UNCHANGED <<store, nextId, reqs>>
                 ELSE /\ boards' = [boards EXCEPT ![b] =
                            [board EXCEPT !.columns[columnIndex].title = title]]
                      /\ activities' = WithActivity("column", board.project)
                      /\ res' = Respond("updateColumn", 200)
                      /\ UNCHANGED <<projects, tasks, aside, nextId, reqs>>

\* DELETE /:id/columns/:columnId
DeleteColumn(u, b, columnId) ==
    LET access == canAccessBoard(u, b)
    IN  IF access # 200
        THEN /\ res' = Respond("deleteColumn", access)
             /\ UNCHANGED <<store, nextId, reqs>>
        ELSE LET board == boards[b]
                 columnIndex == ColumnIndexOf(board, columnId)
             IN  IF columnIndex = 0
                 THEN /\ res' = Respond("deleteColumn", 404)
                      /\ UNCHANGED <<store, nextId, reqs>>
                 ELSE LET taskIds == board.columns[columnIndex].taskIds
                          orderIndex == IndexOf(board.columnOrder, columnId)
                      IN  \* Task.deleteMany({ _id: { $in: taskIds } })
                          /\ tasks' = [t \in DOMAIN tasks \ Range(taskIds)
                                          |-> tasks[t]]
                          /\ boards' = [boards EXCEPT ![b] =
                                [board EXCEPT
                                    !.columns = RemoveAt(@, columnIndex),
                                    !.columnOrder =
                                        IF orderIndex # 0
                                        THEN RemoveAt(@, orderIndex)
                                        ELSE @]]
                          /\ activities' =
                                 WithActivity("column", board.project)
                          /\ res' = Respond("deleteColumn", 200)
                          /\ UNCHANGED <<projects, aside, nextId, reqs>>

\* the `order` the forEach of the reorder handler leaves on a column: the
\* index of the last occurrence of its id in the submitted array, or the old
\* value when the id is not in the array
ReorderedOrder(column, columnOrder) ==
    IF column.id \in Range(columnOrder)
    THEN (CHOOSE i \in DOMAIN columnOrder :
            /\ columnOrder[i] = column.id
            /\ \A j \in DOMAIN columnOrder :
                   columnOrder[j] = column.id => j <= i) - 1
    ELSE column.order

\* PUT /:id/columns/reorder, the handler
ReorderColumns(u, b, columnOrder) ==
    LET access == canAccessBoard(u, b)
    IN  IF access # 200
        THEN /\ res' = Respond("reorderColumns", access)
             /\ UNCHANGED <<store, nextId, reqs>>
        ELSE LET board == boards[b]
                 validColumnIds == ColumnIdsOf(board)
                 allIdsValid == \A i \in DOMAIN columnOrder :
                                    columnOrder[i] \in validColumnIds
             IN  IF ~allIdsValid
                 THEN /\ res' = Respond("reorderColumns", 400)
                      /\ UNCHANGED <<store, nextId, reqs>>
                 ELSE /\ boards' = [boards EXCEPT ![b] =
                            [board EXCEPT
                                !.columnOrder = columnOrder,
                                !.columns = [i \in DOMAIN board.columns |->
                                    [board.columns[i] EXCEPT !.order =
                                        ReorderedOrder(board.columns[i],
                                                       columnOrder)]]]]
                      /\ activities' = WithActivity("board", board.project)
                      /\ res' = Respond("reorderColumns", 200)
                      /\ UNCHANGED <<projects, tasks, aside, nextId, reqs>>

---------------------------------------------------------------------------
(* Task routes *)

\* a faulty variant of PushTask: the id is put in front (unshift)
PushTaskInFront(taskIds, t) == <<t>> \o taskIds

\* board.columns[columnIndex].taskIds.push(task._id)
PushTask(taskIds, t) == Append(taskIds, t)

\* POST /api/tasks, with a body that names no assignee (the handler inserts
\* notifications for the assignees only)
\* The column is looked up before the project and the membership.
CreateTask(u, b, columnId) ==
    IF b \notin DOMAIN boards
    THEN /\ res' = Respond("createTask", 404)
         /\ UNCHANGED <<store, nextId, reqs>>
    ELSE LET board == boards[b]
             columnIndex == ColumnIndexOf(board, columnId)
         IN  IF columnIndex = 0
             THEN /\ res' = Respond("createTask", 404)
                  /\ UNCHANGED <<store, nextId, reqs>>
             ELSE IF board.project \notin DOMAIN projects
             THEN /\ res' = Respond("createTask", 404)
                  /\ UNCHANGED <<store, nextId, reqs>>
             ELSE IF ~IsMember(projects[board.project], u)
             THEN /\ res' = Respond("createTask", 403)
                  /\ UNCHANGED <<store, nextId, reqs>>
             ELSE /\ LET t == TaskId(nextId.task + 1)
                         task == [title |-> "Task",
                                  board |-> b,
                                  column |-> columnId,
                                  order |-> Len(board.columns[columnIndex].taskIds),
                                  createdBy |-> u]
                     IN  /\ tasks' = (t :> task) @@ tasks
                         /\ boards' = [boards EXCEPT
                                ![b].columns[columnIndex].taskIds = PushTask(@, t)]
                  /\ nextId' = [nextId EXCEPT !.task = @ + 1]
                  /\ activities' = WithActivity("task", board.project)
                  /\ res' = Respond("createTask", 201)
                  /\ UNCHANGED <<projects, aside, reqs>>

\* a faulty variant of UpdatableFields: the place of the task is taken out
\* of the body as well
UpdatableFieldsWithPlace ==
    {"title", "description", "assignedTo", "dueDate", "labels",
     "board", "column", "order"}

\* the fields the handler takes out of req.body
UpdatableFields == {"title", "description", "assignedTo", "dueDate", "labels"}

\* updateFields: title, assignedTo and labels are kept when truthy,
\* description and dueDate when not undefined; any other field of the body
\* is dropped
UpdateFields(body) ==
    {f \in DOMAIN body \cap UpdatableFields :
        f \in {"title", "assignedTo", "labels"} => body[f] # ""}

\* { $set: updateFields } on the fields of a task that are kept here
SetFields(task, fields, body) ==
    [task EXCEPT
        !.title = IF "title" \in fields THEN body.title ELSE @,
        !.board = IF "board" \in fields THEN body.board ELSE @,
        !.column = IF "column" \in fields THEN body.column ELSE @,
        !.order = IF "order" \in fields THEN body.order ELSE @]

\* PUT /api/tasks/:id
UpdateTask(u, t, body) ==
    LET access == canAccessTask(u, t)
    IN  IF access # 200
        THEN /\ res' = Respond("updateTask", access)
             /\ UNCHANGED <<store, nextId, reqs>>
        ELSE IF "title" \in DOMAIN body /\ body.title = ""
        THEN /\ res' = Respond("updateTask", 400)
             /\ UNCHANGED <<store, nextId, reqs>>
        ELSE /\ tasks' = [tasks EXCEPT ![t] =
                              SetFields(@, UpdateFields(body), body)]
             /\ activities' =
                    WithActivity("task", boards[tasks[t].board].project)
             /\ res' = Respond("updateTask", 200)
             /\ UNCHANGED <<projects, boards, aside, nextId, reqs>>

\* a faulty variant of BoardWithoutTask: the element at the position the
\* task's `order` field names is spliced out, whatever id it is
BoardWithoutTaskAtOrder(board, task, t) ==
    LET columnIndex == ColumnIndexOf(board, task.column)
        taskIndex == IF columnIndex = 0 THEN 0 ELSE task.order + 1
    IN  IF columnIndex = 0
           \/ taskIndex \notin DOMAIN board.columns[columnIndex].taskIds
        THEN board
        ELSE [board EXCEPT !.columns[columnIndex].taskIds = RemoveAt(@, taskIndex)]

\* the board document of a delete-task request after the handler has taken
\* the task out of the column its `column` field names
BoardWithoutTask(board, task, t) ==
    LET columnIndex == ColumnIndexOf(board, task.column)
        taskIndex == IF columnIndex = 0 THEN 0
                     ELSE IndexOf(board.columns[columnIndex].taskIds, t)
    IN  IF taskIndex = 0 THEN board
        ELSE [board EXCEPT !.columns[columnIndex].taskIds = RemoveAt(@, taskIndex)]

\* DELETE /api/tasks/:id
DeleteTask(u, t) ==
    LET access == canAccessTask(u, t)
    IN  IF access # 200
        THEN /\ res' = Respond("deleteTask", access)
             /\ UNCHANGED <<store, nextId, reqs>>
        ELSE LET task == tasks[t]
             IN  /\ boards' = [boards EXCEPT ![task.board] =
                                   BoardWithoutTask(@, task, t)]
                 /\ tasks' = [x \in DOMAIN tasks \ {t} |-> tasks[x]]
                 /\ activities' =
                        WithActivity("task", boards[task.board].project)
                 /\ res' = Respond("deleteTask", 200)
                 /\ UNCHANGED <<projects, aside, nextId, reqs>>

\* a faulty variant of MovedBoard: the id is spliced into the target column
\* and left in the source column
MovedBoardKeepingSource(board, task, t, columnId, order) ==
    LET targetColumnIndex == ColumnIndexOf(board, columnId)
    IN  [board EXCEPT !.columns[targetColumnIndex].taskIds =
            SpliceInsert(@, order, t)]

\* the board document of a move request after the handler has spliced the
\* task out of its source column and into the target column
\* (targetColumnIndex is the index of columnId, known to be in the board)
MovedBoard(board, task, t, columnId, order) ==
    LET removed == BoardWithoutTask(board, task, t)
        targetColumnIndex == ColumnIndexOf(board, columnId)
    IN  [removed EXCEPT !.columns[targetColumnIndex].taskIds =
            SpliceInsert(@, order, t)]

MovedTask(task, columnId, order) ==
    [task EXCEPT !.column = columnId, !.order = order]

\* the request asks again for the move that was served just before it: the
\* last response is that of a successful move of the same task, which left
\* the requested column and order on the task
IsRepeatedMove(t, columnId, order) ==
    /\ res.op = "moveTask" /\ res.status = 200 /\ res.id = t
    /\ tasks[t].column = columnId
    /\ tasks[t].order = order

\* PUT /api/tasks/:id/move, served without interruption
MoveTask(u, t, columnId, order) ==
    LET access == canAccessTask(u, t)
    IN  IF access # 200
        THEN /\ res' = Respond("moveTask", access)
             /\ UNCHANGED <<store, nextId, reqs>>
        ELSE LET task == tasks[t]
                 board == boards[task.board]
             IN  IF ColumnIndexOf(board, columnId) = 0
                 THEN /\ res' = Respond("moveTask", 404)
                      /\ UNCHANGED <<store, nextId, reqs>>
                 ELSE /\ boards' = [boards EXCEPT ![task.board] =
                            MovedBoard(board, task, t, columnId, order)]
                      /\ tasks' = [tasks EXCEPT ![t] =
                            MovedTask(task, columnId, order)]
                      /\ activities' = WithActivity("task", board.project)
                      /\ res' = RespondMove(200, t,
                                    IsRepeatedMove(t, columnId, order))
                      /\ UNCHANGED <<projects, aside, nextId, reqs>>

---------------------------------------------------------------------------
(* Comment routes.  The content of a comment is a sequence of tokens, a     *)
(* word or an @name mention.                                               *)

Word(text) == [at |-> FALSE, text |-> text]
Mention(name) == [at |-> TRUE, text |-> name]

\* extractMentions: the users that the @name tokens of the content name,
\* each once; a name no user carries is dropped
extractMentions(content) ==
    {content[i].text : i \in {j \in DOMAIN content : content[j].at}}
        \cap Users

\* POST /api/comments
CreateComment(u, t, content) ==
    LET access == canAccessTask(u, t)
    IN  IF access # 200
        THEN /\ res' = Respond("createComment", access)
             /\ UNCHANGED <<store, nextId, reqs>>
        ELSE IF content = <<>>
        THEN /\ res' = Respond("createComment", 400)
             /\ UNCHANGED <<store, nextId, reqs>>
        ELSE LET mentions == extractMentions(content)
                 projectId == boards[tasks[t].board].project
                 createdBy == tasks[t].createdBy
             IN  /\ comments' = (CommentId(nextId.comment + 1) :>
                        [task |-> t, author |-> u, content |-> content,
                         mentions |-> mentions]) @@ comments
                 /\ nextId' = [nextId EXCEPT !.comment = @ + 1]
                 /\ activities' = WithActivity("comment", projectId)
                 /\ notifications' =
                        WithNotifications(mentions, "mentioned", projectId)
                            \cup
                        WithNotifications(
                            IF createdBy # u THEN {createdBy} ELSE {},
                            "comment_added", projectId)
                 /\ res' = Respond("createComment", 201)
                 /\ UNCHANGED <<projects, boards, tasks, reqs>>

\* brandNewMentions of PUT /api/comments/:id: the new mentions that are
\* not among comment.mentions, read from the comment document as it is
\* when the handler reads it
BrandNewMentions(comment, newMentions) ==
    LET oldMentions == comment.mentions
    IN  newMentions \ oldMentions

\* PUT /api/comments/:id.  The handler assigns the content and the new
\* mentions to the comment, saves it, and then reads comment.mentions to
\* find the newly mentioned users; their notifications carry the title of
\* the task, which throws when the task is gone.
EditComment(u, c, content) ==
    IF content = <<>>
    THEN /\ res' = Respond("editComment", 400)
         /\ UNCHANGED <<store, nextId, reqs>>
    ELSE IF c \notin DOMAIN comments
    THEN /\ res' = Respond("editComment", 404)
         /\ UNCHANGED <<store, nextId, reqs>>
    ELSE IF comments[c].author # u
    THEN /\ res' = Respond("editComment", 403)
         /\ UNCHANGED <<store, nextId, reqs>>
    ELSE LET newMentions == extractMentions(content)
             comment == [comments[c] EXCEPT !.content = content,
                                            !.mentions = newMentions]
             brandNewMentions == BrandNewMentions(comment, newMentions)
         IN  /\ comments' = [comments EXCEPT ![c] = comment]
             /\ IF brandNewMentions = {}
                THEN /\ res' = Respond("editComment", 200)
                     /\ UNCHANGED notifications
                ELSE IF comment.task \notin DOMAIN tasks
                THEN /\ res' = Respond("editComment", 500)
                     /\ UNCHANGED notifications
                ELSE /\ notifications' =
                            WithNotifications(
                                brandNewMentions, "mentioned",
                                boards[tasks[comment.task].board].project)
                     /\ res' = Respond("editComment", 200)
             /\ UNCHANGED <<projects, boards, tasks, activities, nextId,
                            reqs>>

\* DELETE /api/comments/:id
DeleteComment(u, c) ==
    IF c \notin DOMAIN comments
    THEN /\ res' = Respond("deleteComment", 404)
         /\ UNCHANGED <<store, nextId, reqs>>
    ELSE LET comment == comments[c]
             access == canAccessTask(u, comment.task)
         IN  IF access = 404
             THEN /\ res' = Respond("deleteComment", 404)
                  /\ UNCHANGED <<store, nextId, reqs>>
             ELSE LET project == projects[boards[tasks[comment.task].board].project]
                      isAuthor == comment.author = u
                      isAdminOrOwnerOfProject ==
                          RoleOf(project, u) \in {"admin", "owner"}
                  IN  IF ~isAuthor /\ ~isAdminOrOwnerOfProject
                      THEN /\ res' = Respond("deleteComment", 403)
                           /\ UNCHANGED <<store, nextId, reqs>>
                      ELSE /\ comments' = Keep(comments, DOMAIN comments \ {c})
                           /\ activities' = WithActivity("comment",
                                  boards[tasks[comment.task].board].project)
                           /\ res' = Respond("deleteComment", 200)
                           /\ UNCHANGED <<projects, boards, tasks,
                                          notifications, nextId, reqs>>

---------------------------------------------------------------------------
(* PUT /api/tasks/:id/move as the server runs it next to other requests:   *)
(* the handler gives up control at every await.  MoveStart is the          *)
(* middleware and the handler up to `await req.board.save()`: it loads the *)
(* task, the board and the project and splices the in-memory board.        *)
(* MoveSaveBoard writes that board document over the stored one,           *)
(* MoveSaveTask then writes the task and answers.  Nothing orders the      *)
(* steps of two requests.  A request keeps of its documents what its       *)
(* remaining steps use.                                                    *)

Idle == [pc |-> "idle"]

MoveStart(r, u, t, columnId, order) ==
    /\ reqs[r].pc = "idle"
    /\ LET access == canAccessTask(u, t)
       IN  IF access # 200
           THEN /\ res' = Respond("moveTask", access)
                /\ UNCHANGED reqs
           ELSE LET task == tasks[t]
                    board == boards[task.board]
                IN  IF ColumnIndexOf(board, columnId) = 0
                    THEN /\ res' = Respond("moveTask", 404)
                         /\ UNCHANGED reqs
                    ELSE /\ reqs' = [reqs EXCEPT ![r] =
                                [pc |-> "saveBoard",
                                 id |-> t,
                                 boardId |-> task.board,
                                 projectId |-> board.project,
                                 board |-> MovedBoard(board, task, t,
                                                      columnId, order),
                                 columnId |-> columnId,
                                 order |-> order]]
                         /\ UNCHANGED res
    /\ nextId' = [nextId EXCEPT !.move = @ + 1]
    /\ UNCHANGED store

\* a faulty variant of SavedBoard: the write does not reach the store
SavedBoardDropped(stored, document) == stored

\* the stored Board after document.save(): the document of the request,
\* whatever has been stored since the request read it (the handler holds
\* no lock and compares no version)
SavedBoard(stored, document) == document

\* await req.board.save(); saving a document that is no longer stored
\* throws and the request ends with 500
MoveSaveBoard(r) ==
    /\ reqs[r].pc = "saveBoard"
    /\ LET b == reqs[r].boardId
       IN  IF b \in DOMAIN boards
           THEN /\ boards' = [boards EXCEPT ![b] = SavedBoard(@, reqs[r].board)]
                /\ reqs' = [reqs EXCEPT ![r] =
                                [pc |-> "saveTask",
                                 id |-> reqs[r].id,
                                 projectId |-> reqs[r].projectId,
                                 columnId |-> reqs[r].columnId,
                                 order |-> reqs[r].order]]
                /\ UNCHANGED res
           ELSE /\ reqs' = [reqs EXCEPT ![r] = Idle]
                /\ res' = Respond("moveTask", 500)
                /\ UNCHANGED boards
    /\ UNCHANGED <<projects, tasks, activities, aside, nextId>>

\* await req.task.save(), the activity log and the response: the save
\* writes the two paths the handler has modified, column and order.  When
\* the task has been deleted in the meantime nothing is stored, and the
\* request ends with 500 or, with a store client that does not report the
\* missing document, goes on to 200
MoveSaveTask(r) ==
    /\ reqs[r].pc = "saveTask"
    /\ LET t == reqs[r].id
       IN  IF t \in DOMAIN tasks
           THEN /\ tasks' = [tasks EXCEPT ![t] =
                        MovedTask(@, reqs[r].columnId, reqs[r].order)]
                /\ activities' = WithActivity("task", reqs[r].projectId)
                /\ res' = RespondMove(200, t, FALSE)
           ELSE /\ \E status \in {200, 500} :
                      /\ res' = Respond("moveTask", status)
                      /\ activities' =
                             IF status = 200
                             THEN WithActivity("task", reqs[r].projectId)
                             ELSE activities
                /\ UNCHANGED tasks
    /\ UNCHANGED aside
    /\ reqs' = [reqs EXCEPT ![r] = Idle]
    /\ UNCHANGED <<projects, boards, nextId>>

---------------------------------------------------------------------------
(* Requests in which a write to the store fails.  The handlers await their *)
(* writes one after the other inside one try block: a write that throws    *)
(* ends the request in the catch block, and what the earlier writes have   *)
(* stored stays.                                                           *)

\* a faulty variant of ServerError: the catch block answers 200
ServerErrorSwallowed(op) == Respond(op, 200)

\* catch (error) { res.status(500).json({ message: 'Server error' }) }
ServerError(op) == Respond(op, 500)

\* PUT /api/tasks/:id/move when `await req.task.save()` throws after
\* `await req.board.save()` has stored the board
MoveTaskSaveTaskFails(u, t, columnId, order) ==
    /\ canAccessTask(u, t) = 200
    /\ LET task == tasks[t]
           board == boards[task.board]
       IN  /\ ColumnIndexOf(board, columnId) # 0
           /\ boards' = [boards EXCEPT ![task.board] =
                  MovedBoard(board, task, t, columnId, order)]
    /\ res' = ServerError("moveTask")
    /\ nextId' = [nextId EXCEPT !.move = @ + 1]
    /\ UNCHANGED <<projects, tasks, activities, aside, reqs>>

\* POST /api/tasks when `await board.save()` throws after
\* `await task.save()` has stored the task
CreateTaskSaveBoardFails(u, b, columnId) ==
    /\ b \in DOMAIN boards
    /\ LET board == boards[b]
           columnIndex == ColumnIndexOf(board, columnId)
       IN  /\ columnIndex # 0
           /\ board.project \in DOMAIN projects
           /\ IsMember(projects[board.project], u)
           /\ tasks' = (TaskId(nextId.task + 1) :>
                  [title |-> "Task",
                   board |-> b,
                   column |-> columnId,
                   order |-> Len(board.columns[columnIndex].taskIds),
                   createdBy |-> u]) @@ tasks
    /\ nextId' = [nextId EXCEPT !.task = @ + 1]
    /\ res' = ServerError("createTask")
    /\ UNCHANGED <<projects, boards, activities, aside, reqs>>

---------------------------------------------------------------------------
(* The socket server (socketHandler).  Connections are authenticated: the  *)
(* middleware has set socket.user.  The users:online broadcast is kept as  *)
(* the list it carries; the relayed events are kept per receiving client.  *)

BoardRoom(boardId) == "board:" \o boardId
UserRoom(userId) == "user:" \o userId

\* activeUsers.set(key, value)
MapSet(map, key, value) ==
    [k \in DOMAIN map \cup {key} |-> IF k = key THEN value ELSE map[k]]

\* activeUsers.delete(key)
MapDelete(map, key) == [k \in DOMAIN map \ {key} |-> map[k]]

\* the sockets of a room: the live sockets that have joined it and not left
\* it (a socket that disconnects is taken out of its rooms)
RoomMembers(room) ==
    {c \in Connections : sockets[c].live /\ room \in sockets[c].rooms}

\* a faulty variant of Recipients: io.to(room), the sender included
RecipientsWithSender(s, room) == RoomMembers(room)

\* socket.to(room): every socket of the room but the sending one
Recipients(s, room) == RoomMembers(room) \ {s}

\* the event under which the server hands a client event on
RelayedName(name) ==
    CASE name = "task:update" -> "task:updated"
      [] name = "task:move" -> "task:moved"
      [] name = "comment:new" -> "comment:added"

RelayNames == {"task:update", "task:move", "comment:new"}

\* socket.to(`board:${data.boardId}`).emit(relayed name, data): the inbox
\* of every client after the server has relayed the event of socket s
Relayed(s, name, data) ==
    [c \in Connections |->
        IF c \in Recipients(s, BoardRoom(data.boardId))
        THEN Append(inbox[c], [name |-> RelayedName(name), data |-> data])
        ELSE inbox[c]]

\* io.on('connection')
Connect(s) ==
    /\ ~sockets[s].live
    /\ sockets' = [sockets EXCEPT ![s] =
           [live |-> TRUE, rooms |-> {UserRoom(SocketUser[s])}]]
    /\ activeUsers' = MapSet(activeUsers, SocketUser[s], s)
    /\ online' = DOMAIN activeUsers'
    /\ UNCHANGED inbox

\* socket.on('disconnect'); what was on its way to the client is lost
Disconnect(s) ==
    /\ sockets[s].live
    /\ sockets' = [sockets EXCEPT ![s] = [live |-> FALSE, rooms |-> {}]]
    /\ activeUsers' = MapDelete(activeUsers, SocketUser[s])
    /\ online' = DOMAIN activeUsers'
    /\ inbox' = [inbox EXCEPT ![s] = <<>>]

\* socket.on('join:board')
JoinBoardRoom(s, boardId) ==
    /\ sockets[s].live
    /\ sockets' = [sockets EXCEPT ![s].rooms = @ \cup {BoardRoom(boardId)}]
    /\ UNCHANGED <<activeUsers, online, inbox>>

\* socket.on('leave:board')
LeaveBoardRoom(s, boardId) ==
    /\ sockets[s].live
    /\ sockets' = [sockets EXCEPT ![s].rooms = @ \ {BoardRoom(boardId)}]
    /\ UNCHANGED <<activeUsers, online, inbox>>

\* socket.on('task:update'), socket.on('task:move'), socket.on('comment:new')
Relay(s, name, data) ==
    /\ sockets[s].live
    /\ inbox' = Relayed(s, name, data)
    /\ UNCHANGED <<sockets, activeUsers, online>>

---------------------------------------------------------------------------
(* The board store of a client (useBoardStore) and the round trips of its  *)
(* calls.  A call is followed in three steps: what the store function does *)
(* before it awaits the API, the request being served, and what it does    *)
(* with the response.  One call per client is in flight at a time.         *)

\* columns.findIndex(col => col._id === columnId), 1-based, 0 when absent
StoreColumnIndex(state, columnId) ==
    IF \E i \in DOMAIN state.columns : state.columns[i].id = columnId
    THEN CHOOSE i \in DOMAIN state.columns :
             /\ state.columns[i].id = columnId
             /\ \A j \in 1..(i - 1) : state.columns[j].id # columnId
    ELSE 0

\* s.splice(start, 1)
SpliceRemove(s, start) ==
    LET k == SpliceStart(Len(s), start)
    IN  IF k < Len(s) THEN RemoveAt(s, k + 1) ELSE s

\* s.filter(id => id !== x)
Filter(s, x) == SelectSeq(s, LAMBDA e : e # x)

\* moveTask, the optimistic update: the element at sourceIndex is spliced
\* out of the source column and the task id spliced into the destination
OptimisticMove(state, t, sourceColumnId, destinationColumnId, sourceIndex, destinationIndex) ==
    LET sourceColumnIndex == StoreColumnIndex(state, sourceColumnId)
        destinationColumnIndex == StoreColumnIndex(state, destinationColumnId)
    IN  IF sourceColumnIndex # 0 /\ destinationColumnIndex # 0
        THEN LET removed == [state.columns EXCEPT
                     ![sourceColumnIndex].taskIds = SpliceRemove(@, sourceIndex)]
             IN  [state EXCEPT !.columns = [removed EXCEPT
                     ![destinationColumnIndex].taskIds =
                         SpliceInsert(@, destinationIndex, t)]]
        ELSE state

\* tasks.map(t => t._id === taskId ? { ...t, column, order } : t)
WithPlace(storeTasks, t, columnId, order) ==
    [x \in DOMAIN storeTasks |->
        IF x = t
        THEN [storeTasks[x] EXCEPT !.column = columnId, !.order = order]
        ELSE storeTasks[x]]

\* handleTaskMove: the id is filtered out of the column the task record of
\* the store names and spliced into the destination
handleTaskMove(state, data) ==
    LET t == data.taskId
    IN  IF t \notin DOMAIN state.tasks THEN state
        ELSE LET sourceColumnIndex ==
                     StoreColumnIndex(state, state.tasks[t].column)
                 destinationColumnIndex ==
                     StoreColumnIndex(state, data.destinationColumnId)
                 columns ==
                     IF sourceColumnIndex # 0 /\ destinationColumnIndex # 0
                     THEN LET removed == [state.columns EXCEPT
                                  ![sourceColumnIndex].taskIds = Filter(@, t)]
                          IN  [removed EXCEPT
                                  ![destinationColumnIndex].taskIds =
                                      SpliceInsert(@, data.destinationIndex, t)]
                     ELSE state.columns
             IN  [state EXCEPT
                     !.columns = columns,
                     !.tasks = WithPlace(@, t, data.destinationColumnId,
                                         data.destinationIndex)]

\* the events the client has registered a listener for (socket.js and the
\* DashboardLayout effect); there is none for the relayed events
Listeners == {"connect", "connect_error", "disconnect", "notification:new"}

\* the store after the socket of the client has dispatched an event
Dispatched(state, event) ==
    IF event.name \in Listeners /\ event.name = "task:moved"
    THEN handleTaskMove(state, event.data)
    ELSE state

\* the client socket dispatches the event at the head of its inbox
Receive(k) ==
    /\ inbox[k] # <<>>
    /\ stores' = [stores EXCEPT ![k] = Dispatched(@, Head(inbox[k]))]
    /\ inbox' = [inbox EXCEPT ![k] = Tail(@)]
    /\ UNCHANGED <<back, sockets, activeUsers, online, calls>>

\* the store function handleTaskMove called with the event at the head of
\* the inbox
ApplyTaskMove(k) ==
    /\ inbox[k] # <<>>
    /\ Head(inbox[k]).name = "task:moved"
    /\ stores' = [stores EXCEPT ![k] = handleTaskMove(@, Head(inbox[k]).data)]
    /\ inbox' = [inbox EXCEPT ![k] = Tail(@)]
    /\ UNCHANGED <<back, sockets, activeUsers, online, calls>>

\* the call a store function leaves in flight at its first await
Call(k, op, t, b, columnId, index, join) ==
    [pc |-> "api", op |-> op, made |-> calls[k].made + 1, taskId |-> t,
     boardId |-> b, columnId |-> columnId, index |-> index, join |-> join,
     status |-> 0, response |-> NoResponse]

\* the Board page mounts: fetchBoard(boardId), up to its await
StartFetch(k, b) ==
    /\ calls[k].pc = "idle"
    /\ sockets[k].live
    /\ stores' = [stores EXCEPT ![k].error = "null"]
    /\ calls' = [calls EXCEPT ![k] = Call(k, "fetchBoard", "", b, "", 0, TRUE)]
    /\ UNCHANGED <<back, sockets, activeUsers, online, inbox>>

\* moveTask(taskId, sourceColumnId, destinationColumnId, sourceIndex,
\* destinationIndex), up to its await
StartMove(k, t, sourceColumnId, destinationColumnId, sourceIndex, destinationIndex) ==
    /\ calls[k].pc = "idle"
    /\ t \in DOMAIN stores[k].tasks
    /\ stores' = [stores EXCEPT ![k] =
           OptimisticMove(@, t, sourceColumnId, destinationColumnId,
                          sourceIndex, destinationIndex)]
    /\ calls' = [calls EXCEPT ![k] =
           Call(k, "moveTask", t, stores[k].tasks[t].board,
                destinationColumnId, destinationIndex, FALSE)]
    /\ UNCHANGED <<back, sockets, activeUsers, online, inbox>>

\* createTask, updateTask and deleteTask, up to their await
StartEdit(k, op, t, columnId) ==
    /\ calls[k].pc = "idle"
    /\ stores[k].currentBoard # "null"
    /\ stores' = [stores EXCEPT ![k].error = "null"]
    /\ calls' = [calls EXCEPT ![k] =
           Call(k, op, t, stores[k].currentBoard, columnId, 0, FALSE)]
    /\ UNCHANGED <<back, sockets, activeUsers, online, inbox>>

\* the tasks of a board, as GET /api/boards/:id returns them
TasksOfBoard(b) ==
    Keep(tasks, {t \in DOMAIN tasks : tasks[t].board = b})

\* the request of the call in flight is served; the response is on its way
Served(k) ==
    /\ calls[k].pc = "api"
    /\ LET call == calls[k]
           u == SocketUser[k]
       IN  \/ /\ call.op = "fetchBoard"
              /\ LET status == canAccessBoard(u, call.boardId)
                 IN  calls' = [calls EXCEPT ![k] = [call EXCEPT
                         !.pc = "returned",
                         !.status = status,
                         !.response =
                             IF status = 200
                             THEN [columns |-> boards[call.boardId].columns,
                                   tasks |-> TasksOfBoard(call.boardId)]
                             ELSE NoResponse]]
              /\ UNCHANGED back
           \/ /\ call.op = "moveTask"
              /\ MoveTask(u, call.taskId, call.columnId, call.index)
              /\ calls' = [calls EXCEPT ![k] = [call EXCEPT
                     !.pc = "returned", !.status = res'.status]]
           \/ /\ call.op = "createTask"
              /\ CreateTask(u, call.boardId, call.columnId)
              /\ calls' = [calls EXCEPT ![k] = [call EXCEPT
                     !.pc = "returned",
                     !.status = res'.status,
                     !.taskId = IF res'.status = 201
                                THEN TaskId(nextId'.task) ELSE "",
                     !.response =
                         IF res'.status = 201
                         THEN [columns |-> <<>>,
                               tasks |-> Keep(tasks', {TaskId(nextId'.task)})]
                         ELSE NoResponse]]
           \/ /\ call.op = "updateTask"
              /\ UpdateTask(u, call.taskId, [title |-> "Renamed"])
              /\ calls' = [calls EXCEPT ![k] = [call EXCEPT
                     !.pc = "returned",
                     !.status = res'.status,
                     !.response =
                         IF res'.status = 200
                         THEN [columns |-> <<>>,
                               tasks |-> Keep(tasks', {call.taskId})]
                         ELSE NoResponse]]
           \/ /\ call.op = "deleteTask"
              /\ DeleteTask(u, call.taskId)
              /\ calls' = [calls EXCEPT ![k] = [call EXCEPT
                     !.pc = "returned", !.status = res'.status]]
    /\ UNCHANGED <<sockets, activeUsers, online, inbox, stores>>

\* the data of the event a store function emits
EventData(b, t, action, columnId, index) ==
    [boardId |-> b, taskId |-> t, action |-> action,
     destinationColumnId |-> columnId, destinationIndex |-> index]

\* emitTaskUpdate / emitTaskMove: socket.emit, and the relay of the server
Emitted(k, name, data) ==
    IF sockets[k].live THEN Relayed(k, name, data) ELSE inbox

\* error.response?.data?.message of a rejected call
ErrorMessage(op, status) == op \o " " \o ToString(status)

Done(k) == [NoCall EXCEPT !.made = calls[k].made]

\* a faulty variant of Resolved: the promise of the API call never rejects
ResolvedAlways(status) == TRUE

\* `await api...` goes on in the try block for a 2xx response and throws
\* into the catch block for any other
Resolved(status) == status \in 200..299

\* response.data.board of an updateTask response
BoardOfResponse(response, t) ==
    IF t \in DOMAIN response.tasks THEN response.tasks[t].board
    ELSE "undefined"

\* the store function goes on after its await
Returned(k) ==
    /\ calls[k].pc = "returned"
    /\ LET call == calls[k]
           state == stores[k]
           t == call.taskId
       IN  \/ /\ call.op = "fetchBoard"
              /\ stores' = [stores EXCEPT ![k] =
                     IF Resolved(call.status)
                     THEN [state EXCEPT
                              !.currentBoard = call.boardId,
                              !.columns = call.response.columns,
                              !.tasks = call.response.tasks]
                     ELSE [state EXCEPT
                              !.error = ErrorMessage(call.op, call.status)]]
              /\ sockets' = IF Resolved(call.status) /\ call.join
                               /\ sockets[k].live
                            THEN [sockets EXCEPT ![k].rooms =
                                     @ \cup {BoardRoom(call.boardId)}]
                            ELSE sockets
              /\ calls' = [calls EXCEPT ![k] = Done(k)]
              /\ UNCHANGED inbox
           \/ /\ call.op = "moveTask"
              /\ IF Resolved(call.status)
                 THEN /\ inbox' = Emitted(k, "task:move",
                             EventData(call.boardId, t, "moved",
                                       call.columnId, call.index))
                      /\ stores' = [stores EXCEPT ![k].tasks =
                             WithPlace(@, t, call.columnId, call.index)]
                      /\ calls' = [calls EXCEPT ![k] = Done(k)]
                 ELSE /\ stores' = [stores EXCEPT ![k].error = "null"]
                      /\ calls' = [calls EXCEPT ![k] =
                             [Call(k, "fetchBoard", "", state.currentBoard,
                                   "", 0, FALSE)
                                 EXCEPT !.made = call.made]]
                      /\ UNCHANGED inbox
              /\ UNCHANGED sockets
           \/ /\ call.op = "createTask"
              /\ IF Resolved(call.status)
                 THEN /\ inbox' = Emitted(k, "task:update",
                             EventData(call.boardId, t, "created", "", 0))
                      /\ stores' = [stores EXCEPT ![k] =
                             LET columnIndex ==
                                     StoreColumnIndex(state, call.columnId)
                             IN  [state EXCEPT
                                    !.columns =
                                        IF columnIndex # 0
                                        THEN [@ EXCEPT ![columnIndex].taskIds =
                                                 Append(@, t)]
                                        ELSE @,
                                    !.tasks = call.response.tasks @@ @]]
                 ELSE /\ stores' = [stores EXCEPT ![k].error =
                             ErrorMessage(call.op, call.status)]
                      /\ UNCHANGED inbox
              /\ calls' = [calls EXCEPT ![k] = Done(k)]
              /\ UNCHANGED sockets
           \/ /\ call.op = "updateTask"
              /\ IF Resolved(call.status)
                 THEN /\ inbox' = Emitted(k, "task:update",
                             EventData(BoardOfResponse(call.response, t), t,
                                       "updated", "", 0))
                      /\ stores' = [stores EXCEPT ![k].tasks =
                             [x \in DOMAIN @ |->
                                 IF x = t /\ t \in DOMAIN call.response.tasks
                                 THEN call.response.tasks[t]
                                 ELSE @[x]]]
                 ELSE /\ stores' = [stores EXCEPT ![k].error =
                             ErrorMessage(call.op, call.status)]
                      /\ UNCHANGED inbox
              /\ calls' = [calls EXCEPT ![k] = Done(k)]
              /\ UNCHANGED sockets
           \/ /\ call.op = "deleteTask"
              /\ IF Resolved(call.status)
                 THEN /\ inbox' = Emitted(k, "task:update",
                             EventData(call.boardId, t, "deleted", "", 0))
                      /\ stores' = [stores EXCEPT ![k] =
                             LET columnIndex ==
                                     IF t \in DOMAIN state.tasks
                                     THEN StoreColumnIndex(state,
                                              state.tasks[t].column)
                                     ELSE 0
                             IN  [state EXCEPT
                                    !.columns =
                                        IF columnIndex # 0
                                        THEN [@ EXCEPT ![columnIndex].taskIds =
                                                 Filter(@, t)]
                                        ELSE @,
                                    !.tasks = Keep(@, DOMAIN @ \ {t})]]
                 ELSE /\ stores' = [stores EXCEPT ![k].error =
                             ErrorMessage(call.op, call.status)]
                      /\ UNCHANGED inbox
              /\ calls' = [calls EXCEPT ![k] = Done(k)]
              /\ UNCHANGED sockets
    /\ UNCHANGED <<back, activeUsers, online>>

---------------------------------------------------------------------------
(* Dispatch of a PUT request by the board router.  Express tries the       *)
(* routes in the order they were registered and runs the first one whose   *)
(* path matches; none of these handlers calls next(), so the request ends  *)
(* there.  A `:name` segment matches any segment.                          *)

PutRoutes ==
    << [handler |-> "updateBoard",
        path |-> << <<"param", "id">> >>],
       [handler |-> "updateColumn",
        path |-> << <<"param", "id">>, <<"lit", "columns">>,
                    <<"param", "columnId">> >>],
       [handler |-> "reorderColumns",
        path |-> << <<"param", "id">>, <<"lit", "columns">>,
                    <<"lit", "reorder">> >>] >>

PathMatches(pattern, path) ==
    /\ Len(pattern) = Len(path)
    /\ \A i \in DOMAIN pattern :
           pattern[i][1] = "param" \/ pattern[i][2] = path[i]

RouteOf(routes, path) ==
    LET matches == [i \in DOMAIN routes |-> PathMatches(routes[i].path, path)]
        k == IndexOf(matches, TRUE)
    IN  IF k = 0 THEN "none" ELSE routes[k].handler

\* PUT /api/boards/<b>/columns/<segment> with body {title, columnOrder}
PutBoardColumns(u, b, segment, body) ==
    LET handler == RouteOf(PutRoutes, <<b, "columns", segment>>)
    IN  CASE handler = "updateColumn" ->
                UpdateColumn(u, b, segment, body.title)
          [] handler = "reorderColumns" ->
                ReorderColumns(u, b, body.columnOrder)
          [] OTHER -> FALSE

---------------------------------------------------------------------------
(* Inputs of the requests.  A request that the access check rejects is     *)
(* answered before its body is looked at, so one body stands for all.      *)

BoardInputs == DOMAIN boards \cup {UnknownId}

\* the column ids a request can name: the board's own and one that is not
\* (a deleted column's id and a made-up id are rejected alike)
ColumnInputs(u, b) ==
    IF canAccessBoard(u, b) = 200
    THEN ColumnIdsOf(boards[b]) \cup {UnknownId}
    ELSE {UnknownId}

ColumnOrderInputs(u, b) ==
    IF canAccessBoard(u, b) = 200
    THEN SeqsUpTo(ColumnInputs(u, b), MaxOrderLen)
    ELSE {<<>>}

\* the `columnOrder` of a request body that has no such field
NoArray == <<"<undefined>">>

\* the bodies the client sends to PUT .../columns/<segment>: {title} to
\* rename a column, {columnOrder} to reorder
PutBodies(u, b) ==
    {[title |-> title, columnOrder |-> NoArray] : title \in {"", "Renamed"}}
        \cup
    {[title |-> NoTitle, columnOrder |-> o] : o \in ColumnOrderInputs(u, b)}

TaskInputs == DOMAIN tasks \cup {UnknownId}

\* the column ids a task request can name: those of the task's board and
\* one that is not
TaskColumnInputs(u, t) ==
    IF canAccessTask(u, t) = 200
    THEN ColumnIdsOf(boards[tasks[t].board]) \cup {UnknownId}
    ELSE {UnknownId}

\* body('order').isNumeric() lets negative numbers through
OrderInputs(u, t) ==
    IF canAccessTask(u, t) = 200 THEN OrderValues ELSE {0}

CreateTaskColumnInputs(b) ==
    IF b \in DOMAIN boards
    THEN ColumnIdsOf(boards[b]) \cup {UnknownId}
    ELSE {UnknownId}

\* The requests, each with the inputs it is tried on.  The counters of the
\* ObjectIds are capped here: the handlers themselves have no such limit.

CreateProjectRequest ==
    /\ nextId.project + 1 \in ProjectNumbers
    /\ \E u \in Owners : CreateProject(u)
    /\ UNCHANGED front

CreateColumnRequest ==
    /\ nextId.column < MaxColumns
    /\ \E u \in Users, b \in BoardInputs, title \in {"", "Review"} :
           CreateColumn(u, b, title)
    /\ UNCHANGED front

CreateLoggedColumnRequest ==
    /\ nextId.column + 1 \in LoggedColumnNumbers
    /\ \E u \in Users, b \in BoardInputs, title \in {"", "Review"} :
           CreateColumn(u, b, title)
    /\ UNCHANGED front

DeleteColumnRequest ==
    \E u \in Users, b \in BoardInputs :
        \E c \in ColumnInputs(u, b) : DeleteColumn(u, b, c)
    /\ UNCHANGED front

ReorderColumnsRequest ==
    \E u \in Users, b \in BoardInputs :
        \E o \in ColumnOrderInputs(u, b) : ReorderColumns(u, b, o)
    /\ UNCHANGED front

PutBoardColumnsRequest ==
    \E u \in Users, b \in BoardInputs :
        \E segment \in ColumnInputs(u, b) \cup {"reorder"},
           body \in PutBodies(u, b) :
            PutBoardColumns(u, b, segment, body)
    /\ UNCHANGED front

CreateTaskRequest(max) ==
    /\ nextId.task < max
    /\ \E u \in Users, b \in BoardInputs :
           \E c \in CreateTaskColumnInputs(b) : CreateTask(u, b, c)
    /\ UNCHANGED front

MoveTaskRequest ==
    \E u \in Users, t \in TaskInputs :
        \E c \in TaskColumnInputs(u, t), order \in OrderInputs(u, t) :
            MoveTask(u, t, c, order)
    /\ UNCHANGED front

DeleteTaskRequest ==
    \E u \in Users, t \in TaskInputs : DeleteTask(u, t)
    /\ UNCHANGED front

\* the requests of the project router and the board routes

ProjectInputs == DOMAIN projects \cup {UnknownId}

\* the users a member request can name: those of the User collection and
\* an id that is in no collection
MemberInputs(u, p) ==
    IF isAdminOrOwner(u, p) = 200 THEN Users \cup {UnknownId} ELSE {UnknownId}

RoleInputs(u, p) ==
    IF isAdminOrOwner(u, p) = 200 THEN {"admin", "member", "owner"}
    ELSE {"member"}

CreateProjectsRequest ==
    /\ nextId.project + 1 \in ManagedProjectNumbers
    /\ \E u \in Users : CreateProject(u)
    /\ UNCHANGED front

AddMemberRequest ==
    \E u \in Users, p \in ProjectInputs :
        \E userId \in MemberInputs(u, p), role \in RoleInputs(u, p) :
            AddMember(u, p, userId, role)
    /\ UNCHANGED front

UpdateMemberRoleRequest ==
    \E u \in Users, p \in ProjectInputs :
        \E userId \in MemberInputs(u, p), role \in RoleInputs(u, p) :
            UpdateMemberRole(u, p, userId, role)
    /\ UNCHANGED front

RemoveMemberRequest ==
    \E u \in Users, p \in ProjectInputs :
        \E userId \in MemberInputs(u, p) : RemoveMember(u, p, userId)
    /\ UNCHANGED front

DeleteProjectRequest ==
    \E u \in Users, p \in ProjectInputs : DeleteProject(u, p)
    /\ UNCHANGED front

CreateBoardRequest ==
    /\ nextId.board - nextId.project < MaxBoards
    /\ \E u \in Users, p \in ProjectInputs, title \in {"", "Sprint"} :
           CreateBoard(u, p, title)
    /\ UNCHANGED front

DeleteBoardRequest ==
    \E u \in Users, b \in BoardInputs : DeleteBoard(u, b)
    /\ UNCHANGED front

\* request bodies of PUT /api/tasks/:id: with and without a title, and
\* with the place of a task (column, order, board) written into them
TaskBodyInputs(u, t) ==
    IF canAccessTask(u, t) = 200
    THEN {[title |-> ""], [title |-> "Renamed"], [description |-> "Text"]}
         \cup {[title |-> "Renamed", column |-> c, order |-> 0,
                 board |-> UnknownId] :
                    c \in ColumnIdsOf(boards[tasks[t].board])}
         \cup {[column |-> c, order |-> 1] :
                    c \in ColumnIdsOf(boards[tasks[t].board])}
    ELSE {[title |-> "Renamed"]}

\* a reorder request as the client sends it after a drag from one end to
\* the other: the stored columnOrder, reversed
Reverse(seq) == [i \in DOMAIN seq |-> seq[Len(seq) + 1 - i]]

ReverseColumnsRequest ==
    \E u \in Users, b \in BoardInputs :
        ReorderColumns(u, b, IF canAccessBoard(u, b) = 200
                             THEN Reverse(boards[b].columnOrder)
                             ELSE <<>>)
    /\ UNCHANGED front

\* the contents a comment request carries: none, a word, a word and a
\* mention
ContentInputs ==
    {<<>>, <<Word("fine")>>, <<Word("see"), Mention("u2")>>}

CommentInputs == DOMAIN comments \cup {UnknownId}

CreateCommentRequest ==
    /\ nextId.comment < MaxComments
    /\ \E u \in Users, t \in TaskInputs :
        \E content \in IF canAccessTask(u, t) = 200 THEN ContentInputs
                        ELSE {<<Word("fine")>>} :
            CreateComment(u, t, content)
    /\ UNCHANGED front

EditCommentRequest ==
    \E u \in Users, c \in CommentInputs, content \in ContentInputs :
        EditComment(u, c, content)
    /\ UNCHANGED front

DeleteCommentRequest ==
    \E u \in Users, c \in CommentInputs : DeleteComment(u, c)
    /\ UNCHANGED front

\* two move requests, one per request slot
MoveStartOnceRequest ==
    /\ nextId.move < Cardinality(Requests)
    /\ \E r \in Requests, u \in Users, t \in TaskInputs :
        \E c \in TaskColumnInputs(u, t), order \in OrderInputs(u, t) :
            MoveStart(r, u, t, c, order)
    /\ UNCHANGED front

MoveTaskSaveTaskFailsRequest ==
    /\ nextId.move < MaxFaults
    /\ \E u \in Users, t \in DOMAIN tasks :
           \E c \in TaskColumnInputs(u, t), order \in OrderInputs(u, t) :
               MoveTaskSaveTaskFails(u, t, c, order)
    /\ UNCHANGED front

CreateTaskSaveBoardFailsRequest ==
    /\ nextId.task < MaxFaultTasks
    /\ \E u \in Users, b \in DOMAIN boards :
           \E c \in CreateTaskColumnInputs(b) :
               CreateTaskSaveBoardFails(u, b, c)
    /\ UNCHANGED front

\* the events of the socket server; a client may name any board
RoomInputs == {BoardId(1), UnknownId}

EventInputs ==
    {[boardId |-> b, taskId |-> TaskId(1), action |-> "updated",
      destinationColumnId |-> ColumnId(1), destinationIndex |-> 0] :
         b \in RoomInputs}

ConnectEvent ==
    /\ \E s \in Connections : Connect(s)
    /\ UNCHANGED <<back, stores, calls>>

DisconnectEvent ==
    /\ \E s \in Connections : Disconnect(s)
    /\ UNCHANGED <<back, stores, calls>>

JoinBoardEvent ==
    /\ \E s \in Connections, b \in RoomInputs : JoinBoardRoom(s, b)
    /\ UNCHANGED <<back, stores, calls>>

LeaveBoardEvent ==
    /\ \E s \in Connections, b \in RoomInputs : LeaveBoardRoom(s, b)
    /\ UNCHANGED <<back, stores, calls>>

\* the number of events delivered and not yet dispatched
RECURSIVE Pending(_)
Pending(S) ==
    IF S = {} THEN 0
    ELSE LET c == CHOOSE x \in S : TRUE
         IN  Len(inbox[c]) + Pending(S \ {c})

\* the events not yet dispatched by the clients are capped here
RelayEvent ==
    /\ \E s \in Connections, name \in RelayNames, data \in EventInputs :
           /\ Pending(Connections) < MaxInbox
           /\ Relay(s, name, data)
    /\ UNCHANGED <<back, stores, calls>>

\* The calls of the clients.  A task is dragged from the place at which the
\* mirror of the client shows it, into any place of a column of the mirror
\* but the place it is in.
DragSources(k, t) ==
    {pl \in UNION {{<<i, j>> : j \in DOMAIN stores[k].columns[i].taskIds} :
                      i \in DOMAIN stores[k].columns} :
        stores[k].columns[pl[1]].taskIds[pl[2]] = t}

DragDestinations(k, source) ==
    {d \in UNION {{<<i, j>> : j \in 0..Len(stores[k].columns[i].taskIds)} :
                     i \in DOMAIN stores[k].columns} :
        /\ ~(d[1] = source[1] /\ d[2] = source[2] - 1)
        /\ d[1] = source[1] => d[2] < Len(stores[k].columns[d[1]].taskIds)}

StartFetchCall ==
    \E k \in Clients, b \in DOMAIN boards :
        /\ calls[k].made + 1 \in CallNumbers
        /\ stores[k].currentBoard = "null"
        /\ StartFetch(k, b)

StartMoveCall ==
    \E k \in Clients :
        /\ calls[k].made + 1 \in CallNumbers
        /\ \E t \in DOMAIN stores[k].tasks :
           \E source \in DragSources(k, t) :
           \E destination \in DragDestinations(k, source) :
               StartMove(k, t,
                         stores[k].columns[source[1]].id,
                         stores[k].columns[destination[1]].id,
                         source[2] - 1, destination[2])

StartEditCall ==
    \E k \in Clients :
        /\ calls[k].made + 1 \in CallNumbers
        /\ \/ /\ nextId.task < MaxClientTasks
              /\ \E i \in DOMAIN stores[k].columns :
                     StartEdit(k, "createTask", "", stores[k].columns[i].id)
           \/ \E t \in DOMAIN stores[k].tasks, op \in {"updateTask", "deleteTask"} :
                  StartEdit(k, op, t, "")

ServedStep == \E k \in Clients : Served(k)

ReturnedStep == \E k \in Clients : Returned(k)

ReceiveStep == \E k \in Connections : Receive(k)

ApplyTaskMoveStep == \E k \in Connections : ApplyTaskMove(k)

UpdateTaskRequest ==
    \E u \in Users, t \in TaskInputs :
        \E body \in TaskBodyInputs(u, t) : UpdateTask(u, t, body)
    /\ UNCHANGED front

---------------------------------------------------------------------------
(* Specifications *)

\* the state engine, one request at a time
Next ==
    \/ CreateProjectRequest
    \/ CreateColumnRequest
    \/ DeleteColumnRequest
    \/ CreateTaskRequest(MaxBoardTasks)
    \/ MoveTaskRequest
    \/ DeleteTaskRequest

Spec == Init /\ [][Next]_vars

\* the task operations alone, on the default columns
NextTasks ==
    \/ CreateProjectRequest
    \/ CreateTaskRequest(MaxTasks)
    \/ MoveTaskRequest
    \/ DeleteTaskRequest

SpecTasks == Init /\ [][NextTasks]_vars

\* tasks created and moved, enough of them to fill a column
NextMove ==
    \/ CreateProjectRequest
    \/ CreateTaskRequest(MaxMoveTasks)
    \/ MoveTaskRequest

SpecMove == Init /\ [][NextMove]_vars

\* the task operations with move requests served concurrently
MoveStartRequest ==
    /\ nextId.move < MaxMoves
    /\ \E r \in Requests, u \in Users, t \in TaskInputs :
        \E c \in TaskColumnInputs(u, t), order \in OrderInputs(u, t) :
            MoveStart(r, u, t, c, order)
    /\ UNCHANGED front

NextRace ==
    \/ CreateProjectRequest
    \/ CreateTaskRequest(MaxRaceTasks)
    \/ MoveStartRequest
    \/ (\E r \in Requests : MoveSaveBoard(r)) /\ UNCHANGED front
    \/ (\E r \in Requests : MoveSaveTask(r)) /\ UNCHANGED front
    \/ DeleteTaskRequest

SpecRace == Init /\ [][NextRace]_vars

\* the column operations, the reorder handler invoked directly
NextColumns ==
    \/ CreateProjectRequest
    \/ CreateColumnRequest
    \/ DeleteColumnRequest
    \/ ReorderColumnsRequest

SpecColumns == Init /\ [][NextColumns]_vars

\* the column operations as the router serves them
NextHttp ==
    \/ CreateProjectRequest
    \/ CreateColumnRequest
    \/ DeleteColumnRequest
    \/ PutBoardColumnsRequest

SpecHttp == Init /\ [][NextHttp]_vars

\* projects, their members and their boards
NextProjects ==
    \/ CreateProjectsRequest
    \/ AddMemberRequest
    \/ UpdateMemberRoleRequest
    \/ RemoveMemberRequest
    \/ CreateBoardRequest
    \/ DeleteProjectRequest

SpecProjects == Init /\ [][NextProjects]_vars

\* boards with tasks, deleted by members of every role
NextBoards ==
    \/ CreateProjectRequest
    \/ AddMemberRequest
    \/ CreateBoardRequest
    \/ CreateTaskRequest(MaxTasks)
    \/ DeleteBoardRequest

SpecBoards == Init /\ [][NextBoards]_vars

\* comments on the tasks of a project whose members come and go
NextComments ==
    \/ CreateProjectRequest
    \/ AddMemberRequest
    \/ RemoveMemberRequest
    \/ CreateTaskRequest(MaxBoardTasks)
    \/ DeleteTaskRequest
    \/ CreateCommentRequest
    \/ EditCommentRequest
    \/ DeleteCommentRequest

SpecComments == Init /\ [][NextComments]_vars

\* two move requests served concurrently, nothing else in between
NextLost ==
    \/ CreateProjectRequest
    \/ CreateTaskRequest(MaxLostTasks)
    \/ MoveStartOnceRequest
    \/ (\E r \in Requests : MoveSaveBoard(r)) /\ UNCHANGED front
    \/ (\E r \in Requests : MoveSaveTask(r)) /\ UNCHANGED front

SpecLost == Init /\ [][NextLost]_vars

\* the creation and the move of tasks on a store whose writes can fail
NextFaults ==
    \/ CreateProjectRequest
    \/ CreateTaskRequest(MaxFaultTasks)
    \/ CreateTaskSaveBoardFailsRequest
    \/ MoveTaskSaveTaskFailsRequest

SpecFaults == Init /\ [][NextFaults]_vars

\* tasks that are created and edited
NextEdit ==
    \/ CreateProjectRequest
    \/ CreateTaskRequest(MaxMoveTasks)
    \/ UpdateTaskRequest

SpecEdit == Init /\ [][NextEdit]_vars

\* every operation of the state engine, and the deletion of the project
NextLog ==
    \/ CreateProjectRequest
    \/ CreateLoggedColumnRequest
    \/ DeleteColumnRequest
    \/ ReverseColumnsRequest
    \/ CreateTaskRequest(Cardinality(LoggedTaskNumbers))
    \/ UpdateTaskRequest
    \/ MoveTaskRequest
    \/ DeleteTaskRequest
    \/ DeleteProjectRequest

SpecLog == Init /\ [][NextLog]_vars

\* the socket server and the events of its connections
NextSockets ==
    \/ ConnectEvent
    \/ DisconnectEvent
    \/ JoinBoardEvent
    \/ LeaveBoardEvent
    \/ RelayEvent

SpecSockets == Init /\ [][NextSockets]_vars

\* the clients, their calls and the events relayed between them
NextClient ==
    \/ CreateProjectRequest
    \/ CreateTaskRequest(MaxClientTasks)
    \/ ConnectEvent
    \/ StartFetchCall
    \/ StartMoveCall
    \/ StartEditCall
    \/ ServedStep
    \/ ReturnedStep
    \/ ReceiveStep

SpecClient == Init /\ [][NextClient]_vars

\* the same, with every response and every event arriving in the end: a
\* request in flight is served, a store function goes on after its await,
\* and the socket of a client dispatches what it has received
SpecClientLive ==
    /\ SpecClient
    /\ WF_vars(ServedStep)
    /\ WF_vars(ReturnedStep)
    /\ WF_vars(ReceiveStep)

\* the board stores of the clients, with handleTaskMove called on the moves
\* that are relayed to them
NextStore ==
    \/ CreateProjectRequest
    \/ CreateTaskRequest(MaxClientTasks)
    \/ ConnectEvent
    \/ StartFetchCall
    \/ StartMoveCall
    \/ ServedStep
    \/ ReturnedStep
    \/ ApplyTaskMoveStep

SpecStore == Init /\ [][NextStore]_vars

\* the task, column and board operations on a store in which projects and
\* boards can be deleted under the tasks
NextAccess ==
    \/ CreateProjectRequest
    \/ CreateTaskRequest(MaxBoardTasks)
    \/ UpdateTaskRequest
    \/ MoveTaskRequest
    \/ DeleteTaskRequest
    \/ CreateColumnRequest
    \/ DeleteColumnRequest
    \/ ReverseColumnsRequest
    \/ DeleteBoardRequest
    \/ DeleteProjectRequest

SpecAccess == Init /\ [][NextAccess]_vars

---------------------------------------------------------------------------
(* Properties of the column operations *)

\* seq lists every element of S exactly once
IsPermutationOf(seq, S) ==
    /\ Len(seq) = Cardinality(S)
    /\ Range(seq) = S

\* the 0-based position of column id c in the array o (-1 when absent)
PositionIn(o, c) == IndexOf(o, c) - 1

\* C1: in every state reached by createColumn, deleteColumn and
\* reorderColumns calls, the columnOrder of every board is a permutation of
\* the ids of the board's columns (same set, same length, no duplicate).
C1_ColumnOrderIsPermutation ==
    \A b \in DOMAIN boards :
        IsPermutationOf(boards[b].columnOrder, ColumnIdsOf(boards[b]))

\* C4: a reorderColumns call by a member whose array is not a permutation of
\* the board's column ids (unknown id, missing id or repeated id) is answered
\* with 400 and leaves columnOrder and every column's order unchanged.
C4_ReorderRejectsNonPermutation ==
    [][\A u \in Users, b \in DOMAIN boards :
        \A o \in ColumnOrderInputs(u, b) :
            ( /\ canAccessBoard(u, b) = 200
              /\ ~IsPermutationOf(o, ColumnIdsOf(boards[b]))
              /\ ReorderColumns(u, b, o) )
            => (res'.status = 400 /\ boards' = boards)]_vars

\* C5: PUT /boards/:id/columns/reorder by a member with a valid permutation
\* is served by the reorder operation: it succeeds, columnOrder becomes the
\* submitted array and every column's order its index in that array.
C5_ReorderRequestIsServed ==
    [][\A u \in Users, b \in DOMAIN boards :
        \A o \in ColumnOrderInputs(u, b) :
            ( /\ canAccessBoard(u, b) = 200
              /\ IsPermutationOf(o, ColumnIdsOf(boards[b]))
              /\ PutBoardColumns(u, b, "reorder",
                                 [title |-> NoTitle, columnOrder |-> o]) )
            => ( /\ res'.op = "reorderColumns"
                 /\ res'.status = 200
                 /\ boards'[b].columnOrder = o
                 /\ \A i \in DOMAIN boards'[b].columns :
                        boards'[b].columns[i].order =
                            PositionIn(o, boards'[b].columns[i].id) )]_vars

\* the task ids listed in column c of the board
TaskIdsOfColumn(board, c) ==
    IF c \in ColumnIdsOf(board)
    THEN Range(board.columns[ColumnIndexOf(board, c)].taskIds)
    ELSE {}

\* C9: a successful deleteColumn leaves the column in neither columns nor
\* columnOrder, deletes exactly the tasks whose ids were in its taskIds and
\* no other task; for a column id that is not in the board the call answers
\* 404 and changes nothing.
C9_DeleteColumnCascades ==
    [][\A u \in Users, b \in DOMAIN boards :
        \A c \in ColumnInputs(u, b) :
            (canAccessBoard(u, b) = 200 /\ DeleteColumn(u, b, c))
            => IF c \in ColumnIdsOf(boards[b])
               THEN /\ res'.status = 200
                    /\ c \notin ColumnIdsOf(boards'[b])
                    /\ c \notin Range(boards'[b].columnOrder)
                    /\ DOMAIN tasks' =
                           DOMAIN tasks \ TaskIdsOfColumn(boards[b], c)
                    /\ \A t \in DOMAIN tasks' : tasks'[t] = tasks[t]
               ELSE /\ res'.status = 404
                    /\ boards' = boards
                    /\ tasks' = tasks]_vars

---------------------------------------------------------------------------
(* Properties of the task operations *)

\* the array without every occurrence of x, the rest in the same order
Without(seq, x) == SelectSeq(seq, LAMBDA e : e # x)

Clamp(x, lo, hi) == Max(lo, Min(x, hi))

\* the array with x put at 0-based position k
InsertAtPosition(seq, k, x) ==
    SubSeq(seq, 1, k) \o <<x>> \o SubSeq(seq, k + 1, Len(seq))

\* the places (column index, position) of the board at which t is listed
PlacesOf(board, t) ==
    {pl \in UNION {{<<i, j>> : j \in DOMAIN board.columns[i].taskIds} :
                      i \in DOMAIN board.columns} :
        board.columns[pl[1]].taskIds[pl[2]] = t}

\* C2: for every existing task, column is the id of the column whose taskIds
\* holds the task's id and order is the index of the id in that array
\* (for all tasks of the board, not only the one the last call was about).
C2_TaskFieldsMatchPosition ==
    \A t \in DOMAIN tasks :
        LET task == tasks[t]
            board == boards[task.board]
            columnIndex == ColumnIndexOf(board, task.column)
        IN  /\ columnIndex # 0
            /\ t \in Range(board.columns[columnIndex].taskIds)
            /\ task.order = PositionIn(board.columns[columnIndex].taskIds, t)

\* C3: every existing task is listed in the taskIds of exactly one column of
\* its board, exactly once, and every id listed in a column's taskIds is the
\* id of an existing task.
C3_EveryTaskInExactlyOneColumn ==
    /\ \A t \in DOMAIN tasks :
           /\ tasks[t].board \in DOMAIN boards
           /\ Cardinality(PlacesOf(boards[tasks[t].board], t)) = 1
    /\ \A b \in DOMAIN boards :
           \A i \in DOMAIN boards[b].columns :
               Range(boards[b].columns[i].taskIds) \subseteq DOMAIN tasks

\* a move into the column that was added to a board which has lost a
\* default column
C3_Witness ==
    /\ res.op = "moveTask" /\ res.status = 200
    /\ \E b \in DOMAIN boards :
           /\ \E i \in DOMAIN boards[b].columns :
                  /\ boards[b].columns[i].id = ColumnId(4)
                  /\ res.id \in Range(boards[b].columns[i].taskIds)
           /\ ColumnId(4) \in ColumnIdsOf(boards[b])
           /\ Cardinality(ColumnIdsOf(boards[b])) = 3

\* C6: a successful moveTask(T, destColumn, destIndex), for every numeric
\* destIndex, takes T's id out of its source column, puts it into
\* destColumn's taskIds at position clamp(destIndex, 0, length), length being
\* that of the destination after the removal, keeps the order of all other
\* ids, and sets task.column = destColumn and task.order = destIndex.
C6_MoveInsertsAtClampedIndex ==
    [][\A u \in Users, t \in DOMAIN tasks :
        \A c \in TaskColumnInputs(u, t), order \in OrderInputs(u, t) :
            (MoveTask(u, t, c, order) /\ res'.status = 200)
            => LET b == tasks[t].board
               IN  /\ \A i \in DOMAIN boards[b].columns :
                          LET rest == Without(boards[b].columns[i].taskIds, t)
                          IN  boards'[b].columns[i].taskIds =
                                  IF boards[b].columns[i].id = c
                                  THEN InsertAtPosition(rest,
                                           Clamp(order, 0, Len(rest)), t)
                                  ELSE rest
                   /\ tasks'[t].column = c
                   /\ tasks'[t].order = order]_vars

\* C7: moveTask is idempotent: a move that repeats the move served just
\* before it, with nothing in between, leaves the taskIds of every column and
\* the column and order of every task as the first one left them.
C7_MoveTaskIsIdempotent ==
    [][(res'.op = "moveTask" /\ res'.status = 200 /\ res'.again)
        => (boards' = boards /\ tasks' = tasks)]_vars

\* a repeated move of a task that shares its column with another task
C7_Witness ==
    /\ res.op = "moveTask" /\ res.status = 200 /\ res.again
    /\ \E b \in DOMAIN boards :
           \E i \in DOMAIN boards[b].columns :
               /\ Len(boards[b].columns[i].taskIds) >= 2
               /\ res.id \in Range(boards[b].columns[i].taskIds)

\* C8: a successful createTask appends the new id to the column's taskIds,
\* leaves every other column and every existing task alone, and stores
\* column = columnId and order = the length of the taskIds before the call;
\* for a column id that is not in the board it answers 404 and creates
\* nothing.
C8_CreateTaskAppends ==
    [][\A u \in Users, b \in DOMAIN boards :
        \A c \in CreateTaskColumnInputs(b) :
            CreateTask(u, b, c)
            => IF c \notin ColumnIdsOf(boards[b])
               THEN res'.status = 404 /\ tasks' = tasks /\ boards' = boards
               ELSE res'.status = 201 =>
                    \E t \in DOMAIN tasks' \ DOMAIN tasks :
                        /\ DOMAIN tasks' = DOMAIN tasks \cup {t}
                        /\ \A x \in DOMAIN tasks : tasks'[x] = tasks[x]
                        /\ \A i \in DOMAIN boards[b].columns :
                               boards'[b].columns[i].taskIds =
                                   IF boards[b].columns[i].id = c
                                   THEN boards[b].columns[i].taskIds \o <<t>>
                                   ELSE boards[b].columns[i].taskIds
                        /\ tasks'[t].column = c
                        /\ tasks'[t].order =
                               Len(boards[b].columns[
                                       ColumnIndexOf(boards[b], c)].taskIds)
                        /\ \A x \in DOMAIN boards \ {b} :
                               boards'[x] = boards[x]]_vars

\* a task created in a column that already held one
C8_Witness ==
    /\ res.op = "createTask" /\ res.status = 201
    /\ \E b \in DOMAIN boards :
           \E i \in DOMAIN boards[b].columns :
               LET ids == boards[b].columns[i].taskIds
               IN  /\ Len(ids) = 2
                   /\ ids[2] = TaskId(nextId.task)
                   /\ tasks[ids[2]].order = 1

\* C10: after a successful deleteTask(T), from every state in which it can
\* be called, the task record is gone, T's id is in no column's taskIds and
\* the other ids of every column keep their order.
C10_DeleteTaskUnlistsTask ==
    [][\A u \in Users, t \in DOMAIN tasks :
        (DeleteTask(u, t) /\ res'.status = 200)
        => /\ t \notin DOMAIN tasks'
           /\ \A b \in DOMAIN boards :
                  \A i \in DOMAIN boards[b].columns :
                      boards'[b].columns[i].taskIds =
                          Without(boards[b].columns[i].taskIds, t)]_vars

---------------------------------------------------------------------------
(* Properties of the project and board routes *)

\* the board is as boardSchema.pre('save') leaves a board without columns
HasDefaultColumns(board) ==
    /\ Len(board.columns) = 3
    /\ [i \in 1..3 |-> board.columns[i].title] =
           <<"To Do", "In Progress", "Done">>
    /\ \A i \in 1..3 :
           /\ board.columns[i].taskIds = <<>>
           /\ board.columns[i].order = i - 1
    /\ Cardinality(ColumnIdsOf(board)) = 3
    /\ board.columnOrder = [i \in 1..3 |-> board.columns[i].id]

\* C11: every board that project creation or createBoard stores has exactly
\* the columns "To Do", "In Progress", "Done" in that order, with empty
\* taskIds, order 0, 1, 2 and columnOrder equal to the three column ids in
\* that order; each successful creation stores one such board, and no board
\* appears in the store with zero columns.
C11_CreatedBoardHasDefaultColumns ==
    [][ /\ \A b \in DOMAIN boards' \ DOMAIN boards :
              HasDefaultColumns(boards'[b])
        /\ (res'.op \in {"createProject", "createBoard"} /\ res'.status = 201)
              => Cardinality(DOMAIN boards' \ DOMAIN boards) = 1 ]_vars

\* a board stored by createBoard next to the default board of its project
C11_Witness ==
    /\ res.op = "createBoard" /\ res.status = 201
    /\ BoardId(nextId.board) \in DOMAIN boards
    /\ HasDefaultColumns(boards[BoardId(nextId.board)])
    /\ \E b \in DOMAIN boards \ {BoardId(nextId.board)} :
           boards[b].project = boards[BoardId(nextId.board)].project

\* the member entries of the project that name the user or carry the role
EntriesOf(project, user) ==
    {i \in DOMAIN project.members : project.members[i].user = user}

EntriesWithRole(project, role) ==
    {i \in DOMAIN project.members : project.members[i].role = role}

OwnerIsTheOneOwner(project) ==
    /\ Cardinality(EntriesOf(project, project.owner)) = 1
    /\ EntriesWithRole(project, "owner") = EntriesOf(project, project.owner)

\* C12: in every state reached by createProject, addMember,
\* updateMemberRole and removeMember calls of any requesters, the owner of
\* every project is in members exactly once, with role owner, and nobody
\* else has role owner; an updateMemberRole or removeMember call that names
\* the owner is rejected and leaves members as they were.
C12_OwnerIsMemberOnce ==
    /\ [](\A p \in DOMAIN projects : OwnerIsTheOneOwner(projects[p]))
    /\ [][res'.op \in {"removeMember", "updateMemberRole"} =>
          \A u \in Users, p \in DOMAIN projects :
            ( \/ RemoveMember(u, p, projects[p].owner)
              \/ \E role \in RoleInputs(u, p) :
                     UpdateMemberRole(u, p, projects[p].owner, role) )
            => (res'.status >= 400 /\ projects' = projects)]_vars

\* an admin has asked to remove the owner
C12_Witness ==
    /\ res.op = "removeMember" /\ res.status = 400
    /\ \E p \in DOMAIN projects :
           /\ Len(projects[p].members) = 2
           /\ EntriesWithRole(projects[p], "admin") # {}

\* the requester may use the administrative operations of the project
IsAdminOrOwnerOf(p, u) ==
    p \in DOMAIN projects /\ RoleOf(projects[p], u) \in {"admin", "owner"}

\* C15: deleteProject, updateMemberRole and removeMember are permitted
\* exactly to the admins and the owner of the project: a member with role
\* member and a non-member get 403 and nothing changes, an admin or owner
\* is never answered 403.
C15_AdminOperationsNeedAdminOrOwner ==
    [][\A u \in Users, p \in DOMAIN projects :
        ( \/ DeleteProject(u, p)
          \/ \E userId \in Users \cup {UnknownId},
                role \in {"admin", "member", "owner"} :
                 \/ UpdateMemberRole(u, p, userId, role)
                 \/ RemoveMember(u, p, userId) )
        => IF IsAdminOrOwnerOf(p, u)
           THEN res'.status # 403
           ELSE res'.status = 403 /\ UNCHANGED store]_vars

\* the documents that carry the project id, per collection
BoardsOf(p) == {b \in DOMAIN boards : boards[b].project = p}
ActivitiesOf(p) == {a \in DOMAIN activities : a.projectId = p}
NotificationsOf(p) == {n \in notifications : n.projectId = p}

\* C17: after a successful deleteProject(P) the project, every board whose
\* project is P, every activity and every notification whose projectId is
\* P are gone, and every document of another project is still there,
\* unchanged.
C17_DeleteProjectCascades ==
    [][\A u \in Users, p \in DOMAIN projects :
        (DeleteProject(u, p) /\ res'.status = 200)
        => /\ projects' = Keep(projects, DOMAIN projects \ {p})
           /\ boards' = Keep(boards, DOMAIN boards \ BoardsOf(p))
           /\ activities' =
                  Keep(activities, DOMAIN activities \ ActivitiesOf(p))
           /\ notifications' = notifications \ NotificationsOf(p)
           /\ p \notin {boards'[b].project : b \in DOMAIN boards'}
           /\ p \notin {a.projectId : a \in DOMAIN activities'}
           /\ p \notin {n.projectId : n \in notifications'}
           /\ UNCHANGED <<tasks, comments>>]_vars

\* a project has been deleted next to another project that has boards, an
\* added member and the notification sent to that member
C17_Witness ==
    /\ res.op = "deleteProject" /\ res.status = 200
    /\ nextId.project = 2
    /\ \E p \in DOMAIN projects :
           /\ Cardinality(BoardsOf(p)) = 2
           /\ Len(projects[p].members) = 2
           /\ ActivitiesOf(p) # {}
           /\ NotificationsOf(p) # {}
           /\ \E q \in {ProjectId(1), ProjectId(2)} \ {p} :
                  q \notin DOMAIN projects

\* C14: deleteBoard by a member with role member is answered 403 and
\* leaves the board and all its tasks in place; by an admin or the owner it
\* succeeds, and afterwards neither the board nor any task whose board is
\* that board exists (the other boards and their tasks are untouched).
C14_DeleteBoardNeedsAdminOrOwner ==
    [][res'.op = "deleteBoard" =>
       \A u \in Users, b \in DOMAIN boards :
        (canAccessBoard(u, b) = 200 /\ DeleteBoard(u, b))
        => IF RoleOf(projects[boards[b].project], u) = "member"
           THEN res'.status = 403 /\ boards' = boards /\ tasks' = tasks
           ELSE /\ res'.status = 200
                /\ b \notin DOMAIN boards'
                /\ b \notin {tasks'[t].board : t \in DOMAIN tasks'}
                /\ boards' = Keep(boards, DOMAIN boards \ {b})
                /\ \A t \in DOMAIN tasks :
                       tasks[t].board # b
                       => t \in DOMAIN tasks' /\ tasks'[t] = tasks[t]]_vars

\* a board has been deleted with its task, next to a board that keeps its
\* task, in a project that has an admin
C14_Witness ==
    /\ res.op = "deleteBoard" /\ res.status = 200
    /\ nextId.task = 2
    /\ Cardinality(DOMAIN tasks) = 1
    /\ \A t \in DOMAIN tasks : tasks[t].board \in DOMAIN boards
    /\ \E p \in DOMAIN projects : EntriesWithRole(projects[p], "admin") # {}

\* C13: for createTask, updateTask, moveTask, deleteTask, createColumn,
\* deleteColumn, reorderColumns and deleteBoard: when a link of the chain
\* task -> board -> project is missing the answer is 404, when the chain
\* resolves and the requester is not a member of the project the answer is
\* 403, and in both cases no document of the store is created, changed or
\* deleted.  (canAccessBoard is the status of the chain from the board on,
\* canAccessTask from the task on.)
C13_BrokenChainOrOutsiderChangesNothing ==
    [][\A u \in Users :
        /\ \A t \in TaskInputs :
              ( /\ canAccessTask(u, t) # 200
                /\ \/ UpdateTask(u, t, [title |-> "Renamed"])
                   \/ DeleteTask(u, t)
                   \/ MoveTask(u, t, UnknownId, 0) )
              => (res'.status = canAccessTask(u, t) /\ UNCHANGED store)
        /\ \A b \in BoardInputs :
              ( /\ canAccessBoard(u, b) # 200
                /\ \/ CreateColumn(u, b, "Review")
                   \/ DeleteColumn(u, b, UnknownId)
                   \/ ReorderColumns(u, b, <<>>)
                   \/ DeleteBoard(u, b)
                   \/ \E c \in CreateTaskColumnInputs(b) :
                          CreateTask(u, b, c) )
              => (res'.status = canAccessBoard(u, b) /\ UNCHANGED store)]_vars

\* the project that owns the task of the comment, when the chain from the
\* comment resolves; "none" otherwise
ProjectOfComment(c) ==
    LET t == comments[c].task
    IN  IF t \in DOMAIN tasks
           /\ tasks[t].board \in DOMAIN boards
           /\ boards[tasks[t].board].project \in DOMAIN projects
        THEN boards[tasks[t].board].project
        ELSE "none"

MayChangeComment(u, c) ==
    \/ comments[c].author = u
    \/ IsAdminOrOwnerOf(ProjectOfComment(c), u)

\* C16: editing and deleting a comment (of a task whose project exists) are
\* each permitted exactly when the requester is the author of the comment
\* or an admin or the owner of the project that owns the comment's task:
\* such a requester succeeds, every other requester is answered 403 and the
\* comment stays as it was.
C16_CommentChangeNeedsAuthorOrAdmin ==
    [][res'.op \in {"editComment", "deleteComment"} =>
       \A u \in Users, c \in DOMAIN comments :
        ( /\ ProjectOfComment(c) # "none"
          /\ \/ DeleteComment(u, c)
             \/ \E content \in ContentInputs \ {<<>>} :
                    EditComment(u, c, content) )
        => IF MayChangeComment(u, c)
           THEN res'.status = 200
           ELSE res'.status = 403 /\ comments' = comments]_vars

\* the columns (by index) of the board whose taskIds hold t
ColumnsListing(board, t) ==
    {i \in DOMAIN board.columns : t \in Range(board.columns[i].taskIds)}

C19_MovedTaskInOneColumn ==
    \A t \in DOMAIN tasks :
        tasks[t].board \in DOMAIN boards
        => Cardinality(ColumnsListing(boards[tasks[t].board], t)) = 1

\* C20: a failed write is not compensated.  A moveTask whose task write
\* fails after its board write is answered 500, the stored board lists the
\* task in the target column (and, for a task that was listed once, in its
\* own column, nowhere else) and the task record is as before; a createTask
\* whose board write fails after its task write is answered 500, the task
\* record exists and no column of any board lists its id.
C20_FailedWriteIsNotCompensated ==
    [][(tasks' = tasks /\ boards' # boards) \/ (tasks' # tasks /\ boards' = boards) =>
       /\ \A u \in Users, t \in DOMAIN tasks :
          \A c \in TaskColumnInputs(u, t), order \in OrderInputs(u, t) :
              MoveTaskSaveTaskFails(u, t, c, order)
              => LET b == tasks[t].board
                     target == ColumnIndexOf(boards[b], c)
                     source == ColumnIndexOf(boards[b], tasks[t].column)
                 IN  /\ res'.op = "moveTask" /\ res'.status = 500
                     /\ target \in ColumnsListing(boards'[b], t)
                     /\ PlacesOf(boards[b], t) = {<<source, tasks[t].order + 1>>}
                        => ColumnsListing(boards'[b], t) = {target}
                     /\ tasks' = tasks
                     /\ activities' = activities
       /\ \A u \in Users, b \in DOMAIN boards :
          \A c \in CreateTaskColumnInputs(b) :
              CreateTaskSaveBoardFails(u, b, c)
              => LET t == TaskId(nextId.task + 1)
                 IN  /\ res'.op = "createTask" /\ res'.status = 500
                     /\ t \notin DOMAIN tasks
                     /\ t \in DOMAIN tasks'
                     /\ tasks'[t].board = b /\ tasks'[t].column = c
                     /\ \A b2 \in DOMAIN boards' :
                            ColumnsListing(boards'[b2], t) = {}
                     /\ boards' = boards
                     /\ activities' = activities]_vars

\* a task that no column lists, left by a failed createTask, next to a task
\* that a failed moveTask has just left listed in a column other than the
\* one its record names
C20_Witness ==
    /\ res.op = "moveTask" /\ res.status = 500
    /\ \E t \in DOMAIN tasks :
           ColumnsListing(boards[tasks[t].board], t) = {}
    /\ \E t \in DOMAIN tasks :
           LET board == boards[tasks[t].board]
           IN  /\ Cardinality(PlacesOf(board, t)) = 1
               /\ ColumnIndexOf(board, tasks[t].column) \notin
                      ColumnsListing(board, t)

\* C21: createTask and updateTask never change the column membership of an
\* existing task: a served updateTask, whatever its body carries, leaves
\* the taskIds of every column and the board, column and order of every
\* task as they were, and a served createTask leaves the record of every
\* task that existed and the places at which the boards list it as they
\* were.
C21_CreateAndUpdateKeepPlaces ==
    [][res'.op \in {"updateTask", "createTask"} =>
       /\ \A t \in DOMAIN tasks :
              /\ t \in DOMAIN tasks'
              /\ tasks'[t].board = tasks[t].board
              /\ tasks'[t].column = tasks[t].column
              /\ tasks'[t].order = tasks[t].order
              /\ \A b \in DOMAIN boards :
                     /\ b \in DOMAIN boards'
                     /\ PlacesOf(boards'[b], t) = PlacesOf(boards[b], t)
       /\ res'.op = "updateTask" => boards' = boards]_vars

\* an updateTask has renamed one of two tasks that share a column
C21_Witness ==
    /\ res.op = "updateTask" /\ res.status = 200
    /\ \E t \in DOMAIN tasks, t2 \in DOMAIN tasks :
           /\ t # t2
           /\ tasks[t].title = "Renamed"
           /\ tasks[t2].title # "Renamed"
           /\ tasks[t].column = tasks[t2].column
           /\ tasks[t].order = 1

\* C22: an event relayed for connection s with boardId B is delivered to
\* every other connection that is joined to room board:B at that moment,
\* not to s, and not to a connection that has not joined board:B or has
\* left it or is not connected.
C22_RelayReachesTheOthersInTheRoom ==
    [][\A s \in Connections, name \in RelayNames, data \in EventInputs :
        (sockets' = sockets /\ Relay(s, name, data))
        => \A c \in Connections :
             inbox'[c] =
                IF /\ c # s
                   /\ sockets[c].live
                   /\ BoardRoom(data.boardId) \in sockets[c].rooms
                THEN Append(inbox[c],
                            [name |-> RelayedName(name), data |-> data])
                ELSE inbox[c]]_vars

\* all three connections are live, two of them are in the room of the
\* same board, and only one of the two has the event
C22_Witness ==
    /\ \A c \in Connections : sockets[c].live
    /\ \E s \in Connections, c \in Connections, o \in Connections :
           /\ s # c
           /\ BoardRoom(BoardId(1)) \in sockets[s].rooms
           /\ BoardRoom(BoardId(1)) \in sockets[c].rooms
           /\ BoardRoom(BoardId(1)) \notin sockets[o].rooms
           /\ inbox[s] = <<>>
           /\ inbox[o] = <<>>
           /\ Len(inbox[c]) = 1
           /\ inbox[c][1].name = "task:moved"
           /\ inbox[c][1].data.boardId = BoardId(1)

\* a user has at least one live connection
HasLiveConnection(u) ==
    \E s \in Connections : sockets[s].live /\ SocketUser[s] = u

\* C29: in every state reached by connects and disconnects, a user is in
\* activeUsers, and in the users:online list, exactly when the user has
\* at least one live connection.
C29_OnlineIffConnected ==
    \A u \in Users :
        /\ u \in DOMAIN activeUsers <=> HasLiveConnection(u)
        /\ u \in online <=> HasLiveConnection(u)

MutatingCalls == {"createTask", "updateTask", "deleteTask", "moveTask"}

\* C23: a mutation descriptor is sent only after the mutation has been
\* applied and its response returned: an event reaches a client only in
\* the step in which a createTask, updateTask, deleteTask or moveTask call
\* of another client goes on after a response of success, and the step in
\* which such a call goes on after a rejection delivers no event.
C23_EmitOnlyAfterSuccess ==
    [][(calls' # calls \/ inbox' # inbox) =>
       /\ (\E c \in Connections : Len(inbox'[c]) > Len(inbox[c]))
          => \E k \in Clients :
                /\ Returned(k)
                /\ calls[k].op \in MutatingCalls
                /\ calls[k].status \in {200, 201}
                /\ Len(inbox'[k]) = Len(inbox[k])
       /\ \A k \in Clients :
             ( /\ Returned(k)
               /\ calls[k].op \in MutatingCalls
               /\ calls[k].status \notin {200, 201} )
             => inbox' = inbox]_vars

\* one client holds the event of a deleteTask of the other, and its own
\* updateTask of that task has been rejected
C23_Witness ==
    \E k \in Clients :
        /\ stores[k].error = ErrorMessage("updateTask", 404)
        /\ calls[k].pc = "idle"
        /\ Len(inbox[k]) = 1
        /\ inbox[k][1].name = "task:updated"
        /\ inbox[k][1].data.action = "deleted"

\* client k holds a relayed move of task t to index i of column c, is in
\* the room of the board it has loaded, and its store knows the task
HoldsRemoteMove(k, t, c, i) ==
    /\ inbox[k] # <<>>
    /\ Head(inbox[k]).name = "task:moved"
    /\ Head(inbox[k]).data.taskId = t
    /\ Head(inbox[k]).data.destinationColumnId = c
    /\ Head(inbox[k]).data.destinationIndex = i
    /\ stores[k].currentBoard = Head(inbox[k]).data.boardId
    /\ BoardRoom(stores[k].currentBoard) \in sockets[k].rooms
    /\ t \in DOMAIN stores[k].tasks

\* the mirror of client k lists task t at index i of column c
MirrorListsAt(k, t, c, i) ==
    \E n \in DOMAIN stores[k].columns :
        /\ stores[k].columns[n].id = c
        /\ i + 1 \in DOMAIN stores[k].columns[n].taskIds
        /\ stores[k].columns[n].taskIds[i + 1] = t

\* C24: when a moveTask of one client has succeeded while another client
\* is connected, joined to the room of the board and has the board loaded,
\* the store of that other client eventually shows the task at the
\* destination index of the destination column.
C24_RemoteMoveIsApplied ==
    \A k \in Clients, i \in 0..1 :
        \A c \in {ColumnId(1), ColumnId(2), ColumnId(3)} :
            HoldsRemoteMove(k, TaskId(1), c, i)
                ~> MirrorListsAt(k, TaskId(1), c, i)

\* C25: when the re-fetch that follows a rejected moveTask has succeeded,
\* the columns and tasks of the store are those the fetch returned and the
\* error field holds the message of the rejected move; when the server
\* confirms a moveTask, the columns stay as the optimistic update left
\* them and the task of the store gets the destination column and index.
C25_RejectedMoveIsRefetched ==
    [][\A k \in Clients :
        Returned(k)
        => /\ ( /\ calls[k].op = "fetchBoard"
                /\ ~calls[k].join
                /\ calls[k].status = 200 )
              => /\ stores'[k].columns = calls[k].response.columns
                 /\ stores'[k].tasks = calls[k].response.tasks
                 /\ \E status \in {403, 404, 500} :
                        stores'[k].error = ErrorMessage("moveTask", status)
           /\ ( /\ calls[k].op = "moveTask"
                /\ calls[k].status = 200 )
              => /\ stores'[k].columns = stores[k].columns
                 /\ calls[k].taskId \in DOMAIN stores[k].tasks
                    => /\ stores'[k].tasks[calls[k].taskId].column =
                              calls[k].columnId
                       /\ stores'[k].tasks[calls[k].taskId].order =
                              calls[k].index]_vars

\* the places (column index, position) at which the mirror of client k
\* lists task t
MirrorPlaces(k, t) ==
    {pl \in UNION {{<<i, j>> : j \in DOMAIN stores[k].columns[i].taskIds} :
                      i \in DOMAIN stores[k].columns} :
        stores[k].columns[pl[1]].taskIds[pl[2]] = t}

\* C27: in every state reached by local moveTask calls (optimistic step,
\* round trip, confirmation) and applications of handleTaskMove, the mirror
\* of a client lists every task of its store in exactly one column,
\* exactly once (tasks are not deleted here, and every mirror starts from
\* a fetched board).
C27_MirrorListsEveryTaskOnce ==
    \A k \in Clients :
        \A t \in DOMAIN stores[k].tasks :
            Cardinality(MirrorPlaces(k, t)) = 1

---------------------------------------------------------------------------
(* The activity log *)

StateEngineOps == {"createTask", "updateTask", "moveTask", "deleteTask",
                   "createColumn", "deleteColumn", "reorderColumns"}

\* the log with one more activity of the values a (told apart up to
\* MaxLogged)
OneMore(log, a) ==
    IF Logged(log, a) = MaxLogged
    THEN log
    ELSE [x \in DOMAIN log \cup {a} |->
             IF x = a THEN Logged(log, a) + 1 ELSE log[x]]

\* C26: the Activity collection is append-only: a successful operation of
\* the state engine (createTask, updateTask, moveTask, deleteTask,
\* createColumn, deleteColumn, reorderColumns) appends exactly one
\* activity, a rejected one appends none, and no operation but
\* deleteProject changes or removes a stored activity.
C26_ActivityLogIsAppendOnly ==
    [][back' # back
       => IF res'.op \in StateEngineOps
          THEN IF res'.status \in 200..299
               THEN \E a \in DOMAIN activities' :
                        activities' = OneMore(activities, a)
               ELSE activities' = activities
          ELSE res'.op # "deleteProject"
               => \A a \in DOMAIN activities :
                      Logged(activities', a) >= activities[a]]_vars

\* a task has been updated with success, and the activity of its creation
\* and the one of its update are both in the log
C26_Witness ==
    /\ res.op = "updateTask"
    /\ res.status = 200
    /\ \E a \in DOMAIN activities :
           a.entityType = "task" /\ activities[a] = 2

---------------------------------------------------------------------------
(* The notifications of an edited comment *)

\* C28: when a comment is edited, every user who is mentioned in the new
\* content and was not among the mentions of the comment before the edit
\* receives a 'mentioned' notification, and the users who were mentioned
\* before receive none.
C28_EditNotifiesNewlyMentioned ==
    [][\A u \in Users, c \in DOMAIN comments, content \in ContentInputs :
        (/\ comments[c].task \in DOMAIN tasks
         /\ EditComment(u, c, content)
         /\ res'.status = 200)
        => LET projectId == boards[tasks[comments[c].task].board].project
               mentioned(v) == [projectId |-> projectId, recipient |-> v,
                                type |-> "mentioned"]
               newly == extractMentions(content) \ comments[c].mentions
           IN  /\ \A v \in newly : mentioned(v) \in notifications'
               /\ notifications' \ notifications
                      \subseteq {mentioned(v) : v \in newly}]_vars

---------------------------------------------------------------------------
(* Referential integrity *)

\* C30: in every state reached by the project, board, column and task
\* operations (deleteProject and deleteBoard among them) the board of every
\* stored task is a stored board and the project of every stored board is
\* a stored project.
C30_ReferencesAreKept ==
    /\ \A t \in DOMAIN tasks : tasks[t].board \in DOMAIN boards
    /\ \A b \in DOMAIN boards : boards[b].project \in DOMAIN projects

====
